---------------------------- MODULE Spec2Model ----------------------------
(***************************************************************************)
(* Love Booth: the print pipeline of the PhotoStripPreview component       *)
(* (src/src/components/PhotoStripPreview.tsx).                             *)
(*                                                                         *)
(* The handlers are async functions.  An action of this module is one      *)
(* turn of the event loop: a user event (a click on Print, leaving and     *)
(* re-entering the preview) or the settling of the platform promise the    *)
(* running handler awaits, followed by all the code that runs             *)
(* synchronously up to the next await of a platform promise.               *)
(***************************************************************************)
EXTENDS Integers, Sequences, FiniteSets

(***************************************************************************)
(* Bounds of the model.                                                    *)
(***************************************************************************)
MaxChunks   == 1   \* the composite is at most MaxChunks * chunkSize + 1 bytes
MaxServices == 2   \* primary services getPrimaryServices() may resolve with
MaxChars    == 2   \* characteristics getCharacteristics() may resolve with
MaxDetached == 1   \* sessions still running for a preview that was left
MaxDownloads == 2  \* Download clicks that start a download, per preview
MaxTicks    == 11  \* steps of the clock
MaxLeaked   == 1   \* interval timers running for a capture screen that was left
MaxCamRequests == 1  \* camera requests pending at once
MaxConcurrent == 2   \* the same where Use Camera is pressed again meanwhile
MaxUploads  == 1   \* batches of files being read at once, and accepted in all
MaxFiles    == 5   \* files in one upload batch
MaxComposites == 3 \* generateHighQualityStrip calls per preview
MaxPasses   == 2   \* runs of the grayscale loop over one pixel

(***************************************************************************)
(* Program constants.                                                      *)
(***************************************************************************)
chunkSize == 512                       \* PhotoStripPreview.tsx:278
webViewGraceMs == 100                  \* part_001:102
browserGraceMs == 1000                 \* part_001:111
scale == 4                             \* PhotoStripPreview.tsx:54
MaxChannel == 255                      \* a channel of ImageData, line 138

\* null, where a device is expected
Null == [id |-> "null", hasGatt |-> FALSE]

Min(a, b) == IF a < b THEN a ELSE b

CeilDiv(n, d) == (n + d - 1) \div d

(***************************************************************************)
(* The platform's values.                                                  *)
(***************************************************************************)
\* The BluetoothDevices the chooser may resolve with.  The code reads only
\* whether a device has a gatt (optional, bluetooth.d.ts:5) and whether that
\* gatt is connected: one device of each kind stands for all.
Devices == {[id |-> "printer", hasGatt |-> TRUE],
            [id |-> "beacon", hasGatt |-> FALSE]}

\* BluetoothCharacteristicProperties, the two flags the code reads.
CharProps == [write : BOOLEAN, writeWithoutResponse : BOOLEAN]

RECURSIVE SeqsUpTo(_, _)
SeqsUpTo(S, n) ==
  IF n = 0 THEN {<<>>}
  ELSE LET shorter == SeqsUpTo(S, n - 1)
       IN  shorter \cup {Append(q, x) : q \in {t \in shorter : Len(t) = n - 1}, x \in S}

CharLists == SeqsUpTo(CharProps, MaxChars)

\* The lengths of the encoded composite the model tries: around every
\* multiple of chunkSize, the empty buffer included.
BufferLens ==
  {n \in {k * chunkSize + d : k \in 0..MaxChunks, d \in {-1, 0, 1}} : n >= 0}

\* The bytes of a composite of n bytes.  The content is the encoder's; the
\* model only needs the byte at each offset to be a byte and to differ from
\* chunk to chunk (251 is prime to chunkSize).
CompositeBytes(n) == [k \in 1..n |-> k % 251]

(***************************************************************************)
(* State.                                                                  *)
(***************************************************************************)
VARIABLES
  \* PhotoStripPreview's React state (lines 34-36)
  isPrinting, isScanning, connectedDevice,
  \* the platform
  bluetoothSupported,   \* 'bluetooth' in navigator
  gattConnected,        \* ids of the devices whose gatt.connected is true
  encoded,              \* length of toDataURL's output for the preview's
                        \* (photos, layout, colorMode); -1 before the first call
  linked,               \* ids of the devices whose gatt.connect() has ever
                        \* resolved with a server
  \* the running handler: its position and its locals
  pc, caller, device, bytes, services, svc, chr, i, printed, fallbackFrom,
  \* what the session did, kept for the properties
  writes,        \* every writeValue call: characteristic, offset, data, status
  toasts,        \* the toasts of the session, in order
  outcome,       \* how the session ended
  scans, connects, sysPrintCalls, dialog, linkOpened, disconnects,
  servicesListed, sawWritable,
  detached,      \* sessions in flight whose preview was unmounted
  \* the download: PhotoStripPreview's state (line 33), handleDownload's
  \* position, and the refs of useImageDownload (part_001:42-43)
  isDownloading, dlPc, isDownloadingRef, objectUrlRef,
  isWebView,     \* isMedianWebView()
  now,           \* the clock, in ms
  urls,          \* every object URL created: when, its grace delay, when revoked
  dlTimers,      \* the pending setTimeout callbacks of downloadImage
  saves,         \* link.click() calls
  downloads,     \* handleDownload invocations that passed the guard
  calls,         \* every downloadImage call: what it returned and did
  dlToasts,
  dlDetached,    \* downloads in flight whose preview was unmounted
  dlMounted,     \* the preview whose hook the model follows is mounted
  \* Index (part_001:140-142)
  appState, idxPhotos, idxLayout,
  \* CaptureMode's React state (CaptureMode.tsx:28-33); countdown 0 is null
  mode, selectedLayout, photos, countdown, timerDuration, cameraReady,
  \* useCamera (useCamera.ts:58-59)
  stream, permissionState,
  camPending,    \* the getUserMedia calls not yet settled: the caller, and
                 \* whether it is the first call or the one with fallback
                 \* constraints
  camOrphans,    \* such calls whose capture screen was unmounted
  liveStreams,   \* streams obtained from getUserMedia whose tracks were not
                 \* stopped and have not ended
  retryWaiting,  \* retryCamera calls in their 100 ms wait
  videoReady,    \* the video element has its stream's metadata (videoWidth > 0)
  \* the interval timer of startCountdown, and what it did
  interval,      \* the mounted capture screen's setInterval is active
  ticks,         \* callbacks of that interval so far
  startedWith,   \* the duration its countdown was started with
  fired,         \* capturePhoto calls made by that countdown
  stale,         \* the camera session in which that countdown was started
                 \* has ended (stopCamera) while it runs
  strayShot,     \* such a countdown has appended a frame to the photos of
                 \* the camera session that followed
  orphans,       \* intervals still active whose capture screen was unmounted
  capToast,      \* the last toast of the capture screen
  \* the upload
  reading,       \* batches whose files are being read
  fileReads,     \* FileReader reads started
  uploadsAccepted,
  readyCalls,    \* onPhotosReady calls since the capture screen was last shown
  \* the compositor: PhotoStripPreview's props (lines 27-28) and colorMode
  \* (line 32)
  propPhotos,    \* the photos prop: of each image, what the model keeps is
                 \* one pixel <<R, G, B, A>>
  propLayout,    \* the layout prop, a layout id
  colorMode,
  generating,    \* the generateHighQualityStrip calls not yet settled
  composites,    \* what every settled call gave, in order
  delivered,     \* the composites handed on: to downloadImage, to the
                 \* peripheral, to the print window
  notice,        \* the last toast of the print handlers
  \* one pixel of the canvas under the grayscale loop (lines 139-144)
  pixel, passes, firstPass

compVars  == <<isPrinting, isScanning, connectedDevice>>
envVars   == <<bluetoothSupported, gattConnected, encoded, linked>>
localVars == <<pc, caller, device, bytes, services, svc, chr, i, printed, fallbackFrom>>
obsVars   == <<writes, toasts, outcome, scans, connects, sysPrintCalls, dialog,
               linkOpened, disconnects, servicesListed, sawWritable>>
printVars == <<compVars, envVars, localVars, obsVars, detached>>
dlVars    == <<isDownloading, dlPc, isDownloadingRef, objectUrlRef, isWebView,
               now, urls, dlTimers, saves, downloads, calls, dlToasts, dlDetached,
               dlMounted>>
capVars   == <<appState, idxPhotos, idxLayout,
               mode, selectedLayout, photos, countdown, timerDuration, cameraReady,
               stream, permissionState, camPending, camOrphans, liveStreams,
               retryWaiting, videoReady,
               interval, ticks, startedWith, fired, stale, strayShot, orphans,
               capToast, reading, fileReads, uploadsAccepted,
               readyCalls>>
stripVars == <<propPhotos, propLayout, colorMode, generating, composites,
               delivered, notice, pixel, passes, firstPass>>
vars      == <<printVars, dlVars, capVars, stripVars>>

\* The state as one record, so that a piece of sequential code is an
\* operator from state to state.
Cur ==
  [isPrinting |-> isPrinting, isScanning |-> isScanning,
   connectedDevice |-> connectedDevice,
   bluetoothSupported |-> bluetoothSupported, gattConnected |-> gattConnected,
   encoded |-> encoded, linked |-> linked,
   pc |-> pc, caller |-> caller, device |-> device, bytes |-> bytes,
   services |-> services, svc |-> svc, chr |-> chr, i |-> i,
   printed |-> printed, fallbackFrom |-> fallbackFrom,
   writes |-> writes, toasts |-> toasts, outcome |-> outcome,
   scans |-> scans, connects |-> connects, sysPrintCalls |-> sysPrintCalls,
   dialog |-> dialog, linkOpened |-> linkOpened, disconnects |-> disconnects,
   servicesListed |-> servicesListed, sawWritable |-> sawWritable,
   detached |-> detached]

Becomes(w) ==
  /\ isPrinting' = w.isPrinting
  /\ isScanning' = w.isScanning
  /\ connectedDevice' = w.connectedDevice
  /\ bluetoothSupported' = w.bluetoothSupported
  /\ gattConnected' = w.gattConnected
  /\ encoded' = w.encoded
  /\ linked' = w.linked
  /\ pc' = w.pc
  /\ caller' = w.caller
  /\ device' = w.device
  /\ bytes' = w.bytes
  /\ services' = w.services
  /\ svc' = w.svc
  /\ chr' = w.chr
  /\ i' = w.i
  /\ printed' = w.printed
  /\ fallbackFrom' = w.fallbackFrom
  /\ writes' = w.writes
  /\ toasts' = w.toasts
  /\ outcome' = w.outcome
  /\ scans' = w.scans
  /\ connects' = w.connects
  /\ sysPrintCalls' = w.sysPrintCalls
  /\ dialog' = w.dialog
  /\ linkOpened' = w.linkOpened
  /\ disconnects' = w.disconnects
  /\ servicesListed' = w.servicesListed
  /\ sawWritable' = w.sawWritable
  /\ detached' = w.detached
  /\ UNCHANGED <<dlVars, capVars, stripVars>>

\* The handler's locals and the session's record before any handler ran.
FreshSession(w) ==
  [w EXCEPT !.pc = "idle", !.caller = "none", !.device = Null, !.bytes = <<>>,
            !.services = 0, !.svc = 0, !.chr = 0, !.i = 0, !.printed = FALSE,
            !.fallbackFrom = "none",
            !.writes = <<>>, !.toasts = <<>>, !.outcome = "none",
            !.scans = 0, !.connects = 0, !.sysPrintCalls = 0, !.dialog = "none",
            !.linkOpened = FALSE, !.disconnects = 0,
            !.servicesListed = FALSE, !.sawWritable = FALSE]

PrintInit ==
  /\ isPrinting = FALSE
  /\ isScanning = FALSE
  /\ connectedDevice = Null
  /\ bluetoothSupported \in BOOLEAN
  /\ gattConnected = {}
  /\ encoded = -1
  /\ linked = {}
  /\ pc = "idle" /\ caller = "none" /\ device = Null /\ bytes = <<>>
  /\ services = 0 /\ svc = 0 /\ chr = 0 /\ i = 0 /\ printed = FALSE
  /\ fallbackFrom = "none"
  /\ writes = <<>> /\ toasts = <<>> /\ outcome = "none"
  /\ scans = 0 /\ connects = 0 /\ sysPrintCalls = 0 /\ dialog = "none"
  /\ linkOpened = FALSE /\ disconnects = 0
  /\ servicesListed = FALSE /\ sawWritable = FALSE
  /\ detached = 0

\* useState(false) (PhotoStripPreview.tsx:33), useRef(false) and useRef(null)
\* (part_001:42-43); nothing downloaded yet.
DownloadInit ==
  /\ isDownloading = FALSE /\ dlPc = "idle"
  /\ isDownloadingRef = FALSE /\ objectUrlRef = 0
  /\ isWebView \in BOOLEAN
  /\ now = 0 /\ urls = <<>> /\ dlTimers = {}
  /\ saves = 0 /\ downloads = 0 /\ calls = <<>> /\ dlToasts = <<>>
  /\ dlDetached = 0
  /\ dlMounted = TRUE

\* STRIP_LAYOUTS with a fault: the grid has the id of the second strip.
STRIP_LAYOUTS_SharedId ==
  <<[id |-> "strip-3", photoCount |-> 3], [id |-> "strip-4", photoCount |-> 4],
    [id |-> "strip-4", photoCount |-> 4], [id |-> "wide-3", photoCount |-> 3]>>

\* STRIP_LAYOUTS, StripLayoutSelector.tsx:11-66: id and photoCount
STRIP_LAYOUTS ==
  <<[id |-> "strip-3", photoCount |-> 3], [id |-> "strip-4", photoCount |-> 4],
    [id |-> "grid-4", photoCount |-> 4], [id |-> "wide-3", photoCount |-> 3]>>

\* type TimerOption = 3 | 5 | 10, CaptureMode.tsx:25
TimerOptions == {3, 5, 10}

\* The state of a CaptureMode that has just been mounted (CaptureMode.tsx:
\* 28-33, useCamera.ts:58-59), with no timer and no camera request of its own.
FreshCapture(w) ==
  [w EXCEPT !.mode = "choose", !.selectedLayout = STRIP_LAYOUTS[1],
            !.photos = <<>>, !.countdown = 0, !.timerDuration = 3,
            !.cameraReady = FALSE, !.stream = FALSE,
            !.permissionState = "prompt", !.camPending = <<>>,
            !.retryWaiting = 0, !.videoReady = FALSE,
            !.interval = FALSE, !.ticks = 0, !.startedWith = 0, !.fired = 0,
            !.stale = FALSE, !.strayShot = FALSE]

\* The page as loaded: Index shows the landing page (part_001:140-142).
CaptureInit ==
  /\ appState = "landing" /\ idxPhotos = <<>> /\ idxLayout = "strip-3"
  /\ mode = "choose" /\ selectedLayout = STRIP_LAYOUTS[1]
  /\ photos = <<>> /\ countdown = 0 /\ timerDuration = 3
  /\ cameraReady = FALSE /\ stream = FALSE /\ permissionState = "prompt"
  /\ camPending = <<>> /\ retryWaiting = 0 /\ videoReady = FALSE
  /\ camOrphans = <<>> /\ liveStreams = 0
  /\ interval = FALSE /\ ticks = 0 /\ startedWith = 0 /\ fired = 0
  /\ stale = FALSE /\ strayShot = FALSE
  /\ orphans = <<>>
  /\ capToast = "none"
  /\ reading = <<>> /\ fileReads = 0 /\ uploadsAccepted = 0 /\ readyCalls = 0

\* "#ffffff" (PhotoStripPreview.tsx:88), opaque
White == <<MaxChannel, MaxChannel, MaxChannel, MaxChannel>>

\* No composite asked for yet
NothingComposed ==
  /\ generating = <<>> /\ composites = <<>> /\ delivered = <<>>
  /\ notice = "none"

\* No pixel under the grayscale loop
PixelAtRest == pixel = White /\ passes = 0 /\ firstPass = White

\* The compositor at rest: useState<ColorMode>("color"), line 32
StripInit ==
  /\ propPhotos = <<>> /\ propLayout = "strip-3" /\ colorMode = "color"
  /\ NothingComposed
  /\ PixelAtRest

\* The print pipeline, the download, the capture screen and the compositor
\* are followed one at a time, each with the others at rest.
Init == PrintInit /\ DownloadInit /\ ~isWebView /\ CaptureInit /\ StripInit

DownloadSpecInit ==
  PrintInit /\ ~bluetoothSupported /\ DownloadInit /\ CaptureInit /\ StripInit

CaptureSpecInit ==
  /\ PrintInit /\ ~bluetoothSupported /\ DownloadInit /\ ~isWebView
  /\ CaptureInit /\ StripInit


(***************************************************************************)
(* Pieces of the handlers, as operators from state to state.               *)
(***************************************************************************)
\* toast.success / toast.info / toast.error (sonner)
Toast(w, kind, msg) ==
  [w EXCEPT !.toasts = Append(@, [kind |-> kind, msg |-> msg])]

\* Chunk with a fault: the slice ends one byte late.
ChunkOneTooMany(b, off) == SubSeq(b, off + 1, Min(off + chunkSize + 1, Len(b)))

\* bytes.slice(i, i + chunkSize), line 280 (offsets from 0, as in the code)
Chunk(b, off) == SubSeq(b, off + 1, Min(off + chunkSize, Len(b)))

\* server.disconnect(), line 301
Disconnect(w) ==
  [w EXCEPT !.gattConnected = @ \ {w.device.id}, !.disconnects = @ + 1]

\* FinishBluetoothPrint with a fault: setIsPrinting(false) is not reached.
FinishWithoutReset(w) ==
  [w EXCEPT !.isScanning = IF w.caller = "scan" THEN FALSE ELSE @,
            !.pc = "idle"]

\* finally of handleBluetoothPrint (306-308), then the return to its caller:
\* handleScanBluetooth's finally (241-243), or handlePrint (372), which ends.
FinishBluetoothPrint(w) ==
  [w EXCEPT !.isPrinting = FALSE,
            !.isScanning = IF w.caller = "scan" THEN FALSE ELSE @,
            !.pc = "idle"]

\* handleSystemPrint up to its await of generateHighQualityStrip (314-316)
handleSystemPrint(w, from) ==
  [w EXCEPT !.sysPrintCalls = @ + 1, !.fallbackFrom = from,
            !.outcome = "fallback", !.pc = "sysGen"]

\* The return of handleSystemPrint to its call site: line 298 goes on to
\* server.disconnect() (301), line 305 (the catch block) does not.
AfterSystemPrint(w) ==
  IF w.fallbackFrom = "noWritable"
  THEN FinishBluetoothPrint(Disconnect(w))
  ELSE FinishBluetoothPrint(w)

\* CatchBluetoothPrint with a fault: the catch block only logs the error.
CatchWithoutFallback(w) ==
  FinishBluetoothPrint([w EXCEPT !.outcome = "failed"])

\* catch (error) of handleBluetoothPrint, lines 302-305
CatchBluetoothPrint(w) ==
  handleSystemPrint(Toast(w, "info", "Opening system print dialog instead..."),
                    "catch")

\* AfterLoop with a fault: without the else branch that falls back.
AfterLoopNoFallback(w) ==
  IF w.printed
  THEN FinishBluetoothPrint(
         Disconnect(Toast([w EXCEPT !.outcome = "done"],
                          "success", "Sent to printer!")))
  ELSE FinishBluetoothPrint(Disconnect(w))

\* After the loop over the services, lines 293-301
AfterLoop(w) ==
  IF w.printed
  THEN FinishBluetoothPrint(
         Disconnect(Toast([w EXCEPT !.outcome = "done"],
                          "success", "Sent to printer!")))
  ELSE handleSystemPrint(
         Toast(w, "info", "Direct print not supported. Opening print dialog..."),
         "noWritable")

\* for (const service of services): the next service's getCharacteristics()
\* is awaited (272-274), or the loop ends.  Also where catch (e) { continue }
\* (288-290) goes on.
NextService(w) ==
  IF w.svc < w.services
  THEN [w EXCEPT !.svc = @ + 1, !.chr = 0, !.pc = "chars"]
  ELSE AfterLoop(w)

\* char.writeValue(chunk) is called and awaited (280-281)
IssueWrite(w, off) ==
  [w EXCEPT !.i = off, !.pc = "write",
            !.writes = Append(@, [svc |-> w.svc, chr |-> w.chr, off |-> off,
                                  data |-> Chunk(w.bytes, off),
                                  status |-> "pending"])]

\* WriteLoop with a fault: writeValue is not awaited, so every remaining chunk
\* is written at once.
WriteLoopNoAwait(w, off) ==
  IF off < Len(w.bytes)
  THEN LET n == CeilDiv(Len(w.bytes) - off, chunkSize)
           issued == [k \in 1..n |->
                       [svc |-> w.svc, chr |-> w.chr,
                        off |-> off + (k - 1) * chunkSize,
                        data |-> Chunk(w.bytes, off + (k - 1) * chunkSize),
                        status |-> "pending"]]
       IN  [w EXCEPT !.i = off + (n - 1) * chunkSize, !.pc = "write",
                     !.writes = @ \o issued]
  ELSE AfterLoop([w EXCEPT !.printed = TRUE])

\* for (let i = ...; i < bytes.length; i += chunkSize), at index off: the
\* next chunk is written, or the loop is over: printed = true; break; and
\* if (printed) break (279-287).
WriteLoop(w, off) ==
  IF off < Len(w.bytes)
  THEN IssueWrite(w, off)
  ELSE AfterLoop([w EXCEPT !.printed = TRUE])

Writable(c) == c.write \/ c.writeWithoutResponse

\* for (const char of characteristics): the first characteristic flagged
\* writable is written to (275-276); with none the next service is tried.
CharacteristicsListed(w, list) ==
  LET writable == {k \in 1..Len(list) : Writable(list[k])}
  IN  IF writable = {}
      THEN NextService(w)
      ELSE LET first == CHOOSE k \in writable : \A m \in writable : k <= m
           IN  WriteLoop([w EXCEPT !.chr = first, !.sawWritable = TRUE], 0)

\* The awaited writeValue settles.
SettleWrite(w, status) ==
  LET pending == {k \in 1..Len(w.writes) : w.writes[k].status = "pending"}
      k == CHOOSE k \in pending : \A m \in pending : k <= m
  IN  [w EXCEPT !.writes[k].status = status]

\* handleBluetoothPrint up to its first await (249-255).  device.gatt?.connect()
\* of a device without gatt is undefined: the handler throws at line 254
\* without any platform call.
handleBluetoothPrint(w, d, from) ==
  LET a == [w EXCEPT !.isPrinting = TRUE, !.device = d, !.caller = from]
  IN  IF d.hasGatt
      THEN [a EXCEPT !.pc = "connect", !.connects = @ + 1]
      ELSE CatchBluetoothPrint(a)

\* handleScanBluetooth with a fault: without the support check, requestDevice
\* of an undefined navigator.bluetooth throws into the catch block.
handleScanBluetoothNoCheck(w) ==
  IF ~w.bluetoothSupported
  THEN Toast([w EXCEPT !.outcome = "scanError"], "error",
             "Failed to connect. Make sure Bluetooth is enabled.")
  ELSE [w EXCEPT !.isScanning = TRUE, !.caller = "scan", !.scans = @ + 1,
                 !.pc = "scan"]

\* handleScanBluetooth up to its await of requestDevice (206-216)
handleScanBluetooth(w) ==
  IF ~w.bluetoothSupported
  THEN Toast([w EXCEPT !.outcome = "unsupported"], "error",
             "Bluetooth not supported. Use Chrome or Edge browser.")
  ELSE [w EXCEPT !.isScanning = TRUE, !.caller = "scan", !.scans = @ + 1,
                 !.pc = "scan"]

\* connectedDevice && connectedDevice.gatt?.connected, line 371
LinkLive(w) ==
  /\ w.connectedDevice # Null
  /\ w.connectedDevice.hasGatt
  /\ w.connectedDevice.id \in w.gattConnected

\* handlePrint with a fault: it scans whatever connectedDevice is.
handlePrintAlwaysScans(w) ==
  IF w.isPrinting \/ w.isScanning
  THEN w
  ELSE handleScanBluetooth(FreshSession(w))

\* handlePrint, lines 368-376
handlePrint(w) ==
  IF w.isPrinting \/ w.isScanning
  THEN w
  ELSE IF LinkLive(w)
       THEN handleBluetoothPrint(FreshSession(w), w.connectedDevice, "print")
       ELSE handleScanBluetooth(FreshSession(w))

\* requestDevice resolved with a device: lines 227-232
DeviceChosen(w, d) ==
  handleBluetoothPrint(
    Toast([w EXCEPT !.connectedDevice = d], "success", "Connected to device"),
    d, "scan")

\* ScanFailed with a fault: isScanning is reset on the success path only.
ScanFailedNoFinally(w, errorName) ==
  LET t == IF errorName = "NotFoundError"
           THEN Toast([w EXCEPT !.outcome = "cancelled"], "info",
                      "No device selected")
           ELSE Toast([w EXCEPT !.outcome = "scanError"], "error",
                      "Failed to connect. Make sure Bluetooth is enabled.")
  IN  [t EXCEPT !.pc = "idle"]

\* requestDevice rejected: catch and finally of handleScanBluetooth (234-243)
ScanFailed(w, errorName) ==
  LET t == IF errorName = "NotFoundError"
           THEN Toast([w EXCEPT !.outcome = "cancelled"], "info",
                      "No device selected")
           ELSE Toast([w EXCEPT !.outcome = "scanError"], "error",
                      "Failed to connect. Make sure Bluetooth is enabled.")
  IN  [t EXCEPT !.isScanning = FALSE, !.pc = "idle"]

\* gatt.connect() resolved with the server: on to generateHighQualityStrip (258)
Connected(w) ==
  [w EXCEPT !.gattConnected = @ \cup {w.device.id}, !.linkOpened = TRUE,
            !.linked = @ \cup {w.device.id}, !.pc = "gen"]

\* generateHighQualityStrip resolved: the data URL is decoded into bytes
\* (261-266) and getPrimaryServices() is awaited (269).  The model takes the
\* data URL's payload as the bytes it encodes.
Generated(w, n) ==
  [w EXCEPT !.encoded = n, !.bytes = CompositeBytes(n), !.pc = "services"]

\* getPrimaryServices() resolved with n services: line 270 and the loop
ServicesListed(w, n) ==
  NextService([w EXCEPT !.services = n, !.svc = 0, !.printed = FALSE,
                        !.servicesListed = TRUE])

\* handleSystemPrint after its composite: window.open and the document
\* (318-358), or its catch (359-362).
SystemPrintOpened(w, n, result) ==
  LET a == [w EXCEPT !.encoded = n, !.dialog = result]
  IN  AfterSystemPrint(
        CASE result = "opened"  -> a
          [] result = "blocked" -> Toast(a, "error", "Please allow popups to print")
          [] OTHER -> Toast(a, "error", "Failed to print. Please try again."))

SystemPrintFailed(w) ==
  AfterSystemPrint(Toast([w EXCEPT !.dialog = "failed"], "error",
                         "Failed to print. Please try again."))

\* What toDataURL may return for this preview: anything the first time, the
\* same again afterwards.
EncodedLens(w) == IF w.encoded = -1 THEN BufferLens ELSE {w.encoded}

(***************************************************************************)
(* Actions.                                                                *)
(***************************************************************************)
\* The user clicks Print (line 504).
HandlePrint ==
  /\ Becomes(handlePrint(Cur))

RequestDeviceResolved ==
  /\ pc = "scan"
  /\ \E d \in Devices : Becomes(DeviceChosen(Cur, d))

RequestDeviceRejected ==
  /\ pc = "scan"
  /\ \E e \in {"NotFoundError", "SecurityError"} : Becomes(ScanFailed(Cur, e))

ConnectResolved ==
  /\ pc = "connect"
  /\ Becomes(Connected(Cur))

\* gatt.connect() rejects, or resolves with no server (line 253)
ConnectFailed ==
  /\ pc = "connect"
  /\ Becomes(CatchBluetoothPrint(Cur))

GenerateResolved ==
  /\ pc = "gen"
  /\ \E n \in EncodedLens(Cur) : Becomes(Generated(Cur, n))

GenerateRejected ==
  /\ pc = "gen"
  /\ Becomes(CatchBluetoothPrint(Cur))

ServicesResolved ==
  /\ pc = "services"
  /\ \E n \in 0..MaxServices : Becomes(ServicesListed(Cur, n))

ServicesRejected ==
  /\ pc = "services"
  /\ Becomes(CatchBluetoothPrint(Cur))

CharacteristicsResolved ==
  /\ pc = "chars"
  /\ \E list \in CharLists : Becomes(CharacteristicsListed(Cur, list))

CharacteristicsRejected ==
  /\ pc = "chars"
  /\ Becomes(NextService(Cur))

WriteResolved ==
  /\ pc = "write"
  /\ Becomes(WriteLoop(SettleWrite(Cur, "ok"), i + chunkSize))

WriteRejected ==
  /\ pc = "write"
  /\ Becomes(NextService(SettleWrite(Cur, "failed")))

SystemPrintGenerateResolved ==
  /\ pc = "sysGen"
  /\ \E n \in EncodedLens(Cur), r \in {"opened", "blocked", "failed"} :
       Becomes(SystemPrintOpened(Cur, n, r))

SystemPrintGenerateRejected ==
  /\ pc = "sysGen"
  /\ Becomes(SystemPrintFailed(Cur))

\* The peripheral goes out of range or is switched off.
LinkDrops ==
  /\ \E id \in gattConnected : gattConnected' = gattConnected \ {id}
  /\ UNCHANGED <<compVars, bluetoothSupported, encoded, linked, localVars, obsVars,
                 detached>>
  /\ UNCHANGED <<dlVars, capVars, stripVars>>

\* The user leaves the preview (Back or Start Over, part_001:154-161) and
\* comes back with photos (part_001:148-152): PhotoStripPreview is mounted
\* anew with its initial state (lines 32-36).  A handler that was running
\* keeps running; its setState calls no longer reach any component.  The
\* page takes no click while the platform's device chooser is open.
PreviewRemounted ==
  /\ pc # "scan"
  /\ pc # "idle" => detached < MaxDetached
  /\ Becomes([FreshSession(Cur) EXCEPT
                !.isPrinting = FALSE, !.isScanning = FALSE,
                !.connectedDevice = Null, !.encoded = -1,
                !.detached = IF pc # "idle" THEN @ + 1 ELSE @])

\* A handler of a preview that was left runs to its end.
DetachedSessionEnds ==
  /\ detached > 0
  /\ detached' = detached - 1
  /\ UNCHANGED <<compVars, envVars, localVars, obsVars>>
  /\ UNCHANGED <<dlVars, capVars, stripVars>>

\* The platform settles the promise the handler awaits.
PlatformStep ==
  \/ RequestDeviceResolved
  \/ RequestDeviceRejected
  \/ ConnectResolved
  \/ ConnectFailed
  \/ GenerateResolved
  \/ GenerateRejected
  \/ ServicesResolved
  \/ ServicesRejected
  \/ CharacteristicsResolved
  \/ CharacteristicsRejected
  \/ WriteResolved
  \/ WriteRejected
  \/ SystemPrintGenerateResolved
  \/ SystemPrintGenerateRejected

Next ==
  \/ HandlePrint
  \/ PlatformStep
  \/ LinkDrops
  \/ PreviewRemounted
  \/ DetachedSessionEnds

Spec == Init /\ [][Next]_vars

\* One mounted preview, in which every platform promise is settled
\* eventually.
LiveNext ==
  \/ HandlePrint
  \/ PlatformStep
  \/ LinkDrops

LiveSpec == Init /\ [][LiveNext]_vars /\ WF_vars(PlatformStep)


(***************************************************************************)
(* The download: handleDownload (PhotoStripPreview.tsx:162-194) and the     *)
(* useImageDownload hook (part_001:41-130).                                *)
(***************************************************************************)
DCur ==
  [isDownloading |-> isDownloading, dlPc |-> dlPc,
   isDownloadingRef |-> isDownloadingRef, objectUrlRef |-> objectUrlRef,
   isWebView |-> isWebView, now |-> now, urls |-> urls, dlTimers |-> dlTimers,
   saves |-> saves, downloads |-> downloads, calls |-> calls,
   dlToasts |-> dlToasts, dlDetached |-> dlDetached, dlMounted |-> dlMounted]

DAssign(w) ==
  /\ isDownloading' = w.isDownloading
  /\ dlPc' = w.dlPc
  /\ isDownloadingRef' = w.isDownloadingRef
  /\ objectUrlRef' = w.objectUrlRef
  /\ isWebView' = w.isWebView
  /\ now' = w.now
  /\ urls' = w.urls
  /\ dlTimers' = w.dlTimers
  /\ saves' = w.saves
  /\ downloads' = w.downloads
  /\ calls' = w.calls
  /\ dlToasts' = w.dlToasts
  /\ dlDetached' = w.dlDetached
  /\ dlMounted' = w.dlMounted

DBecomes(w) == DAssign(w) /\ UNCHANGED <<printVars, capVars, stripVars>>

\* The strings downloadImage may be given.  canvas.toDataURL yields the
\* first (and "data:," for a canvas without area); the others are what the
\* hook's contract must also withstand.
DataUrls ==
  {[head |-> "data:image/png;base64", payload |-> "base64"],
   [head |-> "data:", payload |-> "empty"],
   [head |-> "data:image/png;base64", payload |-> "notBase64"],
   [head |-> "hello", payload |-> "absent"]}

\* canvas.toDataURL("image/png", 1.0), PhotoStripPreview.tsx:155
PngDataUrl == [head |-> "data:image/png;base64", payload |-> "base64"]

\* parts[0].match(/:(.*?);/)?.[1] || "image/png", part_001:31
MimeOf(head) ==
  LET group == IF head = "data:image/png;base64" THEN "image/png" ELSE ""
  IN  IF group = "" THEN "image/png" ELSE group

\* atob(parts[1]), part_001:32.  A string without a comma has no parts[1]:
\* atob(undefined) decodes the text "undefined", whose length is not one a
\* base64 text can have, and throws like any other text that is not base64.
Atob(payload) ==
  CASE payload = "base64" -> [threw |-> FALSE, len |-> 1]
    [] payload = "empty"  -> [threw |-> FALSE, len |-> 0]
    [] OTHER              -> [threw |-> TRUE, len |-> 0]

\* dataUrlToBlob, part_001:29-39
dataUrlToBlob(dataUrl) ==
  LET bstr == Atob(dataUrl.payload)
  IN  [threw |-> bstr.threw, type |-> MimeOf(dataUrl.head), size |-> bstr.len]

\* cleanupObjectUrl with a fault: the ref keeps the URL it revoked.
cleanupObjectUrlKeepsRef(w) ==
  IF w.objectUrlRef # 0
  THEN [w EXCEPT !.urls[w.objectUrlRef].revokedAt = w.now,
                 !.urls[w.objectUrlRef].revocations = @ + 1]
  ELSE w

\* cleanupObjectUrl, part_001:48-53
cleanupObjectUrl(w) ==
  IF w.objectUrlRef # 0
  THEN [w EXCEPT !.urls[w.objectUrlRef].revokedAt = w.now,
                 !.urls[w.objectUrlRef].revocations = @ + 1,
                 !.objectUrlRef = 0]
  ELSE w

GraceMs(w) == IF w.isWebView THEN webViewGraceMs ELSE browserGraceMs

\* The try block of downloadImage from createObjectURL on (part_001:76-114):
\* the object URL, the anchor, link.click() and the setTimeout.
TriggerSave(w) ==
  LET id == Len(w.urls) + 1
  IN  [w EXCEPT !.urls = Append(@, [createdAt |-> w.now, grace |-> GraceMs(w),
                                    revokedAt |-> -1, revocations |-> 0]),
                !.objectUrlRef = id,
                !.saves = @ + 1,
                !.dlTimers = @ \cup {[id |-> id, due |-> w.now + GraceMs(w)]}]

\* downloadImageBody with a fault: without the catch block.
downloadImageBodyNoCatch(w, dataUrl) ==
  IF w.isDownloadingRef
  THEN [w |-> w, result |-> "false"]
  ELSE LET a == cleanupObjectUrl([w EXCEPT !.isDownloadingRef = TRUE])
       IN  IF dataUrlToBlob(dataUrl).threw
           THEN [w |-> [a EXCEPT !.isDownloadingRef = FALSE],
                 result |-> "throw"]
           ELSE [w |-> [TriggerSave(a) EXCEPT !.isDownloadingRef = FALSE],
                 result |-> "true"]

\* downloadImage, part_001:59-124: the state it leaves and what it returns
\* ("true", "false", or "throw" were an exception to leave it).
downloadImageBody(w, dataUrl) ==
  IF w.isDownloadingRef
  THEN [w |-> w, result |-> "false"]
  ELSE LET a == cleanupObjectUrl([w EXCEPT !.isDownloadingRef = TRUE])
       IN  IF dataUrlToBlob(dataUrl).threw
           THEN [w |-> [cleanupObjectUrl(a) EXCEPT !.isDownloadingRef = FALSE],
                 result |-> "false"]
           ELSE [w |-> [TriggerSave(a) EXCEPT !.isDownloadingRef = FALSE],
                 result |-> "true"]

\* The call of downloadImage, with its record for the properties.
downloadImage(w, dataUrl) ==
  LET r == downloadImageBody(w, dataUrl)
  IN  [r EXCEPT !.w.calls =
         Append(@, [dataUrl |-> dataUrl, result |-> r.result,
                    saved |-> r.w.saves - w.saves,
                    refAtReturn |-> r.w.isDownloadingRef])]

DToast(w, kind, msg) ==
  [w EXCEPT !.dlToasts = Append(@, [kind |-> kind, msg |-> msg])]

\* finally of handleDownload, lines 191-193
FinishDownload(w) == [w EXCEPT !.isDownloading = FALSE, !.dlPc = "idle"]

\* handleDownload up to its await of generateHighQualityStrip (162-168)
handleDownload(w) ==
  IF w.isDownloading
  THEN w
  ELSE [w EXCEPT !.isDownloading = TRUE, !.dlPc = "gen", !.downloads = @ + 1]

\* handleDownload after the composite (171-193).  downloadImage awaits
\* nothing, so it and the rest of the handler run in the same turn.
DownloadGenerated(w, dataUrl) ==
  LET r == downloadImage(w, dataUrl)
  IN  FinishDownload(
        CASE r.result = "true"  ->
               DToast(r.w, "success", "Photo downloaded! View in Gallery")
          [] r.result = "false" ->
               DToast(r.w, "error", "Download failed. Please try again.")
          [] OTHER ->
               DToast(r.w, "error", "Failed to generate image. Please try again."))

\* generateHighQualityStrip rejected: catch and finally (188-193)
DownloadGenerateFailed(w) ==
  FinishDownload(DToast(w, "error", "Failed to generate image. Please try again."))

\* downloadImage when the anchor throws after createObjectURL (76-96, 105):
\* the catch block releases the URL just created (115-121) and false is
\* returned; handleDownload goes on as after any false (179-193).
DownloadSaveThrew(w) ==
  LET a == cleanupObjectUrl([w EXCEPT !.isDownloadingRef = TRUE])
      id == Len(a.urls) + 1
      b == [a EXCEPT !.urls = Append(@, [createdAt |-> a.now,
                                         grace |-> GraceMs(a),
                                         revokedAt |-> -1, revocations |-> 0]),
                     !.objectUrlRef = id]
      c == [cleanupObjectUrl(b) EXCEPT
              !.isDownloadingRef = FALSE,
              !.calls = Append(@, [dataUrl |-> PngDataUrl, result |-> "false",
                                   saved |-> 0, refAtReturn |-> FALSE])]
  IN  FinishDownload(DToast(c, "error", "Download failed. Please try again."))

\* The setTimeout callback of downloadImage (99-102, 109-111)
TimerFired(w, t) ==
  cleanupObjectUrl([w EXCEPT !.dlTimers = @ \ {t}])

\* The user clicks Download (line 495).
HandleDownload ==
  /\ dlMounted
  /\ ~isDownloading => downloads < MaxDownloads
  /\ DBecomes(handleDownload(DCur))

DownloadGenerateResolved ==
  /\ dlPc = "gen"
  /\ \E d \in DataUrls : DBecomes(DownloadGenerated(DCur, d))

DownloadGenerateRejected ==
  /\ dlPc = "gen"
  /\ DBecomes(DownloadGenerateFailed(DCur))

\* Time passes, in steps of the shorter grace delay.
TimePasses ==
  /\ now < MaxTicks * webViewGraceMs
  /\ DBecomes([DCur EXCEPT !.now = @ + webViewGraceMs])

\* A timer fires, no earlier than its delay after it was set.
DownloadTimerFires ==
  \E t \in dlTimers :
    /\ now >= t.due
    /\ DBecomes(TimerFired(DCur, t))

\* The user leaves the preview and comes back with photos (part_001:148-161):
\* a new PhotoStripPreview with a new useImageDownload.  A handleDownload
\* that was awaiting its composite keeps running on the refs of the old
\* hook; the model follows the URLs and timers of the mounted one.
DownloadPreviewRemounted ==
  /\ dlPc # "idle" => dlDetached < MaxDetached
  /\ DBecomes([DCur EXCEPT
                 !.isDownloading = FALSE, !.dlPc = "idle",
                 !.isDownloadingRef = FALSE, !.objectUrlRef = 0,
                 !.urls = <<>>, !.dlTimers = {}, !.saves = 0, !.downloads = 0,
                 !.calls = <<>>, !.dlToasts = <<>>,
                 !.dlDetached = IF dlPc # "idle" THEN @ + 1 ELSE @])

\* A handleDownload of a preview that was left runs to its end.
DetachedDownloadEnds ==
  /\ dlDetached > 0
  /\ DBecomes([DCur EXCEPT !.dlDetached = @ - 1])

DownloadNext ==
  \/ HandleDownload
  \/ DownloadGenerateResolved
  \/ DownloadGenerateRejected
  \/ TimePasses
  \/ DownloadTimerFires
  \/ DownloadPreviewRemounted
  \/ DetachedDownloadEnds

DownloadSpec == DownloadSpecInit /\ [][DownloadNext]_vars

\* The same hook followed after its preview was left for good (Back or
\* Start Over, part_001:154-161): the refs live on in the closures of the
\* handler and of the timers, which go on as before.  No effect of the
\* hook has a cleanup.
DownloadPreviewLeft ==
  /\ dlMounted
  /\ DBecomes([DCur EXCEPT !.dlMounted = FALSE])

\* The composite is there and the anchor throws
DownloadSaveThrows ==
  /\ dlPc = "gen" /\ ~isDownloadingRef
  /\ DBecomes(DownloadSaveThrew(DCur))

\* Time passes while a timer waits for its delay.
TimerWaits ==
  /\ \E t \in dlTimers : now < t.due
  /\ DBecomes([DCur EXCEPT !.now = @ + webViewGraceMs])

DownloadLiveNext ==
  \/ HandleDownload
  \/ DownloadGenerateResolved
  \/ DownloadGenerateRejected
  \/ DownloadSaveThrows
  \/ DownloadPreviewLeft
  \/ TimerWaits
  \/ DownloadTimerFires

\* Scheduled timers fire: the clock reaches every pending delay, and a
\* timer that is due runs.
DownloadLiveSpec ==
  /\ DownloadSpecInit /\ [][DownloadLiveNext]_vars
  /\ WF_vars(TimerWaits) /\ WF_vars(DownloadTimerFires)


(***************************************************************************)
(* The capture screen: CaptureMode (CaptureMode.tsx), its camera hook       *)
(* (useCamera.ts) and Index (part_001:139-184), which mounts it.           *)
(***************************************************************************)
CCur ==
  [appState |-> appState, idxPhotos |-> idxPhotos, idxLayout |-> idxLayout,
   mode |-> mode, selectedLayout |-> selectedLayout, photos |-> photos,
   countdown |-> countdown, timerDuration |-> timerDuration,
   cameraReady |-> cameraReady, stream |-> stream,
   permissionState |-> permissionState, camPending |-> camPending,
   camOrphans |-> camOrphans, liveStreams |-> liveStreams,
   retryWaiting |-> retryWaiting, videoReady |-> videoReady,
   interval |-> interval, ticks |-> ticks, startedWith |-> startedWith,
   fired |-> fired, stale |-> stale, strayShot |-> strayShot,
   orphans |-> orphans,
   capToast |-> capToast, reading |-> reading,
   fileReads |-> fileReads,
   uploadsAccepted |-> uploadsAccepted,
   readyCalls |-> readyCalls]

CBecomes(w) ==
  /\ appState' = w.appState
  /\ idxPhotos' = w.idxPhotos
  /\ idxLayout' = w.idxLayout
  /\ mode' = w.mode
  /\ selectedLayout' = w.selectedLayout
  /\ photos' = w.photos
  /\ countdown' = w.countdown
  /\ timerDuration' = w.timerDuration
  /\ cameraReady' = w.cameraReady
  /\ stream' = w.stream
  /\ permissionState' = w.permissionState
  /\ camPending' = w.camPending
  /\ camOrphans' = w.camOrphans
  /\ liveStreams' = w.liveStreams
  /\ retryWaiting' = w.retryWaiting
  /\ videoReady' = w.videoReady
  /\ interval' = w.interval
  /\ ticks' = w.ticks
  /\ startedWith' = w.startedWith
  /\ fired' = w.fired
  /\ stale' = w.stale
  /\ strayShot' = w.strayShot
  /\ orphans' = w.orphans
  /\ capToast' = w.capToast
  /\ reading' = w.reading
  /\ fileReads' = w.fileReads
  /\ uploadsAccepted' = w.uploadsAccepted
  /\ readyCalls' = w.readyCalls
  /\ UNCHANGED <<printVars, dlVars, stripVars>>

CapToast(w, msg) == [w EXCEPT !.capToast = msg]

requiredPhotos(w) == w.selectedLayout.photoCount

\* getTracks().forEach(track => track.stop()) on the stream the hook holds
\* (useCamera.ts:77-80, 219-223)
StopTracks(w) == [w EXCEPT !.liveStreams = IF w.stream THEN @ - 1 ELSE @]

\* CaptureMode is unmounted: its state is gone and the next one starts
\* afresh.  Nothing clears the interval of a running countdown: it goes on
\* calling setCountdown of the unmounted component.  React evaluates the
\* updater of the first of these calls against the last rendered countdown
\* and queues the update for a render that never comes; the updaters of the
\* later calls are never run.  So the interval is cleared (by that first
\* callback) only if the last rendered countdown was 1.  The cleanup of
\* the hook's effect stops the stream it holds (useCamera.ts:218-224).  The
\* camera requests still pending go on on their own and will find isMounted
\* false.  A first call, pending or still to be made by a waiting retry,
\* then changes nothing: its stream is stopped at once (135-138) and its
\* rejection returns at once (142).  Only the calls with fallback
\* constraints are followed further.
Unmounted(w) ==
  [FreshCapture(StopTracks(w)) EXCEPT
     !.orphans = IF w.interval
                 THEN Append(@, [lastRenderedOne |-> w.countdown = 1])
                 ELSE @,
     !.camOrphans = @ \o SelectSeq(w.camPending,
                                    LAMBDA r : r.kind = "fallback")]

\* handlePhotosReady of Index, part_001:148-152: the preview replaces the
\* capture screen.
handlePhotosReady(w, capturedPhotos, layout) ==
  Unmounted([w EXCEPT !.idxPhotos = capturedPhotos, !.idxLayout = layout,
                      !.appState = "preview", !.readyCalls = @ + 1])

\* handleBack of Index, part_001:154-157
handleBack(w) ==
  Unmounted([w EXCEPT !.appState = "landing", !.idxPhotos = <<>>])

\* stopCamera of useCamera, useCamera.ts:76-88
stopCameraHook(w) ==
  [StopTracks(w) EXCEPT !.stream = FALSE, !.permissionState = "prompt"]

\* stopCamera with a fault: the photos are kept.
stopCameraKeepsPhotos(w) ==
  [stopCameraHook(w) EXCEPT !.cameraReady = FALSE, !.mode = "choose",
                            !.videoReady = FALSE,
                            !.stale = w.interval]

\* stopCamera, CaptureMode.tsx:87-96.  The choose screen has no video
\* element.  Neither the countdown nor its interval is touched: a
\* countdown that runs goes on, its camera session over.
stopCamera(w) ==
  [stopCameraHook(w) EXCEPT !.cameraReady = FALSE, !.mode = "choose",
                            !.photos = <<>>, !.videoReady = FALSE,
                            !.stale = w.interval, !.strayShot = FALSE]

\* startCountdown with a fault: without its guard.
startCountdownNoGuard(w) ==
  [w EXCEPT !.countdown = w.timerDuration, !.interval = TRUE, !.ticks = 0,
            !.startedWith = w.timerDuration, !.fired = 0,
                 !.stale = FALSE]

\* startCountdown, CaptureMode.tsx:122-136, up to setInterval
startCountdown(w) ==
  IF w.countdown # 0
  THEN w
  ELSE [w EXCEPT !.countdown = w.timerDuration, !.interval = TRUE, !.ticks = 0,
                 !.startedWith = w.timerDuration, !.fired = 0,
                 !.stale = FALSE]

\* capturePhoto, CaptureMode.tsx:138-166: a frame is appended when the
\* video element exists (camera mode) and has a picture.  A frame is a
\* data URL; the model keeps where it came from (for an upload, which file
\* of the batch) and what raster it holds: the canvas here is 1000 x 1000
\* and takes the centre square of the video (146-158).
CameraFrame == [from |-> "camera", file |-> 0, raster |-> "normalized"]

\* capturePhoto with a fault: the frame is taken without looking for the
\* video element.
capturePhotoNoVideoCheck(w) ==
  [w EXCEPT !.photos = Append(@, CameraFrame),
            !.capToast = "Photo captured!"]

capturePhoto(w) ==
  IF w.mode = "camera" /\ w.videoReady
  THEN [w EXCEPT !.photos = Append(@, CameraFrame),
                 !.capToast = "Photo captured!"]
  ELSE w

\* IntervalCallback with a fault: capture on reaching 2.
IntervalCallbackEarly(w) ==
  LET a == [w EXCEPT !.ticks = @ + 1]
      b == capturePhoto([a EXCEPT !.interval = FALSE, !.fired = @ + 1,
                                  !.countdown = 0])
  IN  IF a.countdown <= 2
      THEN [b EXCEPT !.stale = FALSE,
                     !.strayShot = @ \/ (w.stale /\ b.photos # w.photos)]
      ELSE [a EXCEPT !.countdown = @ - 1]

\* The callback of the interval, CaptureMode.tsx:126-135
IntervalCallback(w) ==
  LET a == [w EXCEPT !.ticks = @ + 1]
      b == capturePhoto([a EXCEPT !.interval = FALSE, !.fired = @ + 1,
                                  !.countdown = 0])
  IN  IF a.countdown = 1
      THEN [b EXCEPT !.stale = FALSE,
                     !.strayShot = @ \/ (w.stale /\ b.photos # w.photos)]
      ELSE [a EXCEPT !.countdown = IF @ # 0 THEN @ - 1 ELSE 0]

\* deletePhoto with a fault: it only shows the toast.
deletePhotoKeepsAll(w, index) ==
  CapToast(w, "Photo deleted. Take another!")

\* deletePhoto, CaptureMode.tsx:168-171 (index from 1 here)
deletePhoto(w, index) ==
  CapToast([w EXCEPT !.photos = [k \in 1..(Len(@) - 1) |->
                                   IF k < index THEN @[k] ELSE @[k + 1]]],
           "Photo deleted. Take another!")

\* handleDone, CaptureMode.tsx:173-178
handleDone(w) ==
  IF Len(w.photos) = requiredPhotos(w)
  THEN handlePhotosReady(stopCamera(w), w.photos, w.selectedLayout.id)
  ELSE w

\* The files a batch may hold: what the code reads is the MIME type (top
\* level and subtype, empty when the gallery gives none) and the name's
\* extension.
FileKinds ==
  {[type |-> <<"image", "png">>, ext |-> "png"],
   [type |-> <<>>, ext |-> "HEIC"],
   [type |-> <<"text", "plain">>, ext |-> "txt"]}

Batches == SeqsUpTo(FileKinds, MaxFiles)

\* the i flag of the pattern at CaptureMode.tsx:207
Lower(ext) == IF ext = "HEIC" THEN "heic" ELSE ext

\* CaptureMode.tsx:204-208
ValidFile(f) ==
  \/ Len(f.type) = 2 /\ f.type[1] = "image"
  \/ Lower(f.ext) \in {"jpg", "jpeg", "png", "gif", "webp", "heic", "heif", "bmp"}

\* handleFileUpload with a fault: without the check of the batch size.
handleFileUploadAnySize(w, files) ==
  IF Len(files) = 0
  THEN w
  ELSE IF \E k \in 1..Len(files) : ~ValidFile(files[k])
  THEN CapToast(w, "Please select only image files")
  ELSE [CapToast(w, "Processing images...") EXCEPT
          !.reading = Append(@, [n |-> Len(files), layout |-> w.selectedLayout,
                                 results |-> <<>>]),
          !.fileReads = @ + Len(files),
          !.uploadsAccepted = @ + 1]

\* handleFileUpload, CaptureMode.tsx:189-277, up to the reads it starts
handleFileUpload(w, files) ==
  IF Len(files) = 0
  THEN w
  ELSE IF Len(files) # requiredPhotos(w)
  THEN CapToast(w, "Please select exactly N photos")
  ELSE IF \E k \in 1..Len(files) : ~ValidFile(files[k])
  THEN CapToast(w, "Please select only image files")
  ELSE [CapToast(w, "Processing images...") EXCEPT
          !.reading = Append(@, [n |-> Len(files), layout |-> w.selectedLayout,
                                 results |-> <<>>]),
          !.fileReads = @ + Len(files),
          !.uploadsAccepted = @ + 1]

\* What the promise of one file resolves to (CaptureMode.tsx:220-276): the
\* empty string when the read or the decoding failed (226-229, 261-264,
\* 269-272), the 1000 x 1000 centre crop drawn on a canvas (243-254), or
\* the data URL as read when the canvas gave no context or the drawing
\* threw (237-241, 255-258).
FileResults == {"", "normalized", "original"}

ReadFile(k, result) == [from |-> "upload", file |-> k, raster |-> result]

\* a number in a template string
Text(n) ==
  CASE n = 0 -> "0" [] n = 1 -> "1" [] n = 2 -> "2" [] n = 3 -> "3"
    [] n = 4 -> "4" [] n = 5 -> "5" [] OTHER -> "many"

OnlySomeLoaded(k, n) ==
  "Only " \o Text(k) \o " of " \o Text(n) \o " photos loaded. Please try again."

\* The then of Promise.all with a fault: the pictures that loaded are
\* handed over when there is at least one.
UploadProcessedPartial(w, results) ==
  LET batch == Head(w.reading)
      all == [k \in 1..Len(results) |-> ReadFile(k, results[k])]
      validPhotos == SelectSeq(all, LAMBDA p : p.raster # "")
      a == [w EXCEPT !.reading = Tail(@)]
  IN  IF Len(validPhotos) > 0
      THEN CapToast(handlePhotosReady(a, validPhotos, batch.layout.id),
                    "Photos uploaded successfully!")
      ELSE CapToast(a, OnlySomeLoaded(Len(validPhotos), batch.layout.photoCount))

\* The then of Promise.all, CaptureMode.tsx:278-290, for the results of the
\* files of the oldest batch, in the order of the files.  The handler is
\* the one of the render in which the files were chosen.
UploadProcessed(w, results) ==
  LET batch == Head(w.reading)
      all == [k \in 1..Len(results) |-> ReadFile(k, results[k])]
      validPhotos == SelectSeq(all, LAMBDA p : p.raster # "")
      a == [w EXCEPT !.reading = Tail(@)]
  IN  IF Len(validPhotos) = batch.layout.photoCount
      THEN CapToast(handlePhotosReady(a, validPhotos, batch.layout.id),
                    "Photos uploaded successfully!")
      ELSE CapToast(a, OnlySomeLoaded(Len(validPhotos), batch.layout.photoCount))

\* requestCamera up to its await of getUserMedia, useCamera.ts:94-129
requestCamera(w, from) ==
  [w EXCEPT !.permissionState = "requesting",
            !.camPending = Append(@, [from |-> from, kind |-> "primary"])]

\* getUserMedia resolved (useCamera.ts:131-140), and the caller goes on:
\* setMode("camera") (CaptureMode.tsx:104-105, 117-118).  The effect
\* (57-82) gives the video element the new stream.  The same for the call
\* with fallback constraints (175-184).  The cleanup of the hook's effect
\* stops the stream that the new one replaces (218-224).
CameraGranted(w) ==
  [StopTracks(w) EXCEPT !.camPending = Tail(@), !.stream = TRUE,
                        !.liveStreams = @ + 1,
                        !.permissionState = "granted", !.mode = "camera",
                        !.videoReady = FALSE]

\* getUserMedia rejected (useCamera.ts:141-203); startCamera shows a toast
\* (CaptureMode.tsx:106-109), handleRetryCamera does not.
CameraRejected(w, state) ==
  LET a == [w EXCEPT !.camPending = Tail(@), !.permissionState = state]
  IN  IF Head(w.camPending).from = "start"
      THEN CapToast(a, "Unable to access camera.")
      ELSE a

\* The states a rejection leaves: the first call's by the error's name
\* (useCamera.ts:148-199), the fallback call's always "error" (185-188).
RejectionStates(kind) ==
  IF kind = "primary"
  THEN {"denied", "blocked", "unavailable", "error"}
  ELSE {"error"}

\* getUserMedia rejected with OverconstrainedError while mounted: the call
\* is made again with fallback constraints (useCamera.ts:142, 172-175).
CameraOverconstrained(w) ==
  [w EXCEPT !.camPending = Append(Tail(@), [from |-> Head(@).from,
                                            kind |-> "fallback"])]

\* A call with fallback constraints of an unmounted capture screen
\* settles.  Its stream is neither kept nor stopped: the if at
\* useCamera.ts:179-184 has no else.
OrphanSettled(w, k, granted) ==
  [w EXCEPT !.camOrphans = SubSeq(@, 1, k - 1) \o SubSeq(@, k + 1, Len(@)),
            !.liveStreams = IF granted THEN @ + 1 ELSE @]

(***************************************************************************)
(* Actions of the capture screen.                                          *)
(***************************************************************************)
\* The timers and camera calls left behind by unmounted capture screens are
\* followed up to MaxLeaked of each.
CanUnmount ==
  /\ interval => Len(orphans) < MaxLeaked
  /\ Len(camOrphans) + Len(SelectSeq(camPending, LAMBDA r : r.kind = "fallback"))
       <= MaxLeaked

\* handleStart of Index, part_001:144-146
HandleStart ==
  /\ appState = "landing"
  /\ CBecomes([CCur EXCEPT !.appState = "capture", !.readyCalls = 0])

SelectLayout ==
  /\ appState = "capture" /\ mode = "choose"
  /\ \E k \in 1..Len(STRIP_LAYOUTS) :
       CBecomes([CCur EXCEPT !.selectedLayout = STRIP_LAYOUTS[k]])

\* Use Camera (CaptureMode.tsx:475): startCamera
StartCamera ==
  /\ appState = "capture" /\ mode = "choose"
  /\ Len(camPending) + retryWaiting < MaxCamRequests
  /\ CBecomes(requestCamera(CCur, "start"))

GetUserMediaResolved ==
  /\ camPending # <<>>
  /\ CBecomes(CameraGranted(CCur))

GetUserMediaRejected ==
  /\ camPending # <<>>
  /\ \E e \in RejectionStates(Head(camPending).kind) :
       CBecomes(CameraRejected(CCur, e))

GetUserMediaOverconstrained ==
  /\ camPending # <<>>
  /\ Head(camPending).kind = "primary"
  /\ CBecomes(CameraOverconstrained(CCur))

OrphanRequestSettles ==
  \E k \in 1..Len(camOrphans) : \E granted \in BOOLEAN :
    LET r == OrphanSettled(CCur, k, granted)
    IN  /\ r.liveStreams <= MaxLeaked + 1
        /\ CBecomes(r)

\* Use Camera pressed again while a call is pending: the choose screen stays
\* until one resolves.
StartCameraAgain ==
  /\ appState = "capture" /\ mode = "choose"
  /\ camPending # <<>>
  /\ Len(camPending) + retryWaiting < MaxConcurrent
  /\ CBecomes(requestCamera(CCur, "start"))

\* video.onloadedmetadata, CaptureMode.tsx:63-69
VideoMetadataLoaded ==
  /\ appState = "capture" /\ mode = "camera" /\ stream /\ ~videoReady
  /\ CBecomes([CCur EXCEPT !.cameraReady = TRUE, !.videoReady = TRUE])

\* track.onended, CaptureMode.tsx:74-79
TrackEnded ==
  /\ appState = "capture" /\ mode = "camera" /\ stream
  /\ CBecomes(stopCamera(CapToast(CCur, "Camera was disconnected. Please try again.")))

\* Whether the Try Again button is rendered: in the overlay of the camera
\* screen (CaptureMode.tsx:314, 359) for two of the states (365).  The
\* choose screen (444-505) has no such button.
TryAgainShown(w) ==
  /\ w.appState = "capture" /\ w.mode = "camera"
  /\ \/ ~w.cameraReady
     \/ w.permissionState \in {"denied", "blocked", "error"}
  /\ w.permissionState \in {"denied", "error"}

\* Try Again (CaptureMode.tsx:365-374): handleRetryCamera, retryCamera up
\* to its wait (useCamera.ts:209-213)
RetryCamera ==
  /\ TryAgainShown(CCur)
  /\ Len(camPending) + retryWaiting < MaxCamRequests
  /\ CBecomes([stopCameraHook(CCur) EXCEPT !.retryWaiting = @ + 1])

\* The 100 ms of retryCamera are over: requestCamera (useCamera.ts:214)
RetryWaitOver ==
  /\ retryWaiting > 0
  /\ CBecomes(requestCamera([CCur EXCEPT !.retryWaiting = @ - 1], "retry"))

SetTimerDuration ==
  /\ appState = "capture" /\ mode = "camera"
  /\ \E t \in TimerOptions : CBecomes([CCur EXCEPT !.timerDuration = t])

\* Take Photo (CaptureMode.tsx:417-426).  The button's disabled attribute
\* and the guard of startCountdown test the same countdown: the model
\* leaves that test to the handler.
TakePhoto ==
  /\ appState = "capture" /\ mode = "camera"
  /\ Len(photos) < requiredPhotos(CCur)
  /\ cameraReady
  /\ CBecomes(startCountdown(CCur))

\* One second of the mounted capture screen's interval
IntervalTick ==
  /\ interval
  /\ CBecomes(IntervalCallback(CCur))

\* One second of an interval whose capture screen was unmounted, when its
\* callback has an effect: the updater runs with prev = 1, clears the
\* interval and calls capturePhoto, which finds no video element.  The
\* other callbacks of such an interval change nothing.
OrphanTick ==
  \E k \in 1..Len(orphans) :
    /\ orphans[k].lastRenderedOne
    /\ CBecomes([CCur EXCEPT
                   !.orphans = SubSeq(@, 1, k - 1) \o SubSeq(@, k + 1, Len(@))])

DeletePhoto ==
  /\ appState = "capture" /\ mode = "camera"
  /\ \E index \in 1..Len(photos) : CBecomes(deletePhoto(CCur, index))

\* Back of the camera screen (CaptureMode.tsx:323)
CameraBack ==
  /\ appState = "capture" /\ mode = "camera"
  /\ CBecomes(stopCamera(CCur))

\* Continue to Preview (CaptureMode.tsx:427-435)
HandleDone ==
  /\ appState = "capture" /\ mode = "camera"
  /\ Len(photos) >= requiredPhotos(CCur)
  /\ CanUnmount
  /\ CBecomes(handleDone(CCur))

\* Back of the choose screen (CaptureMode.tsx:453): onBack
ChooseBack ==
  /\ appState = "capture" /\ mode = "choose"
  /\ CanUnmount
  /\ CBecomes(handleBack(CCur))

\* The change event of the file input (CaptureMode.tsx:494-501)
FilesChosen ==
  /\ appState = "capture" /\ mode = "choose"
  /\ \E files \in Batches :
       LET r == handleFileUpload(CCur, files)
       IN  /\ r.uploadsAccepted <= MaxUploads
           /\ CBecomes(r)

\* The same for a batch the checks let through: as many image files as the
\* selected layout needs
ImageFilesChosen ==
  /\ appState = "capture" /\ mode = "choose"
  /\ LET files == [k \in 1..requiredPhotos(CCur) |->
                    [type |-> <<"image", "png">>, ext |-> "png"]]
         r == handleFileUpload(CCur, files)
     IN  /\ r.uploadsAccepted <= MaxUploads
         /\ CBecomes(r)

\* The promises of the files of the oldest batch have all resolved
\* (CaptureMode.tsx:220-276): what each gave, in the order of the files
FilesLoaded ==
  /\ reading # <<>> /\ Head(reading).results = <<>>
  /\ \E results \in [1..Head(reading).n -> FileResults] :
       CBecomes([CCur EXCEPT !.reading[1].results = results])

\* The same for two of the outcomes: every file gave its crop, or all but
\* the last did
FilesLoadedOrOneFailed ==
  /\ reading # <<>> /\ Head(reading).results = <<>>
  /\ \E last \in {"", "normalized"} :
       CBecomes([CCur EXCEPT !.reading[1].results =
                   [k \in 1..Head(reading).n |->
                      IF k = Head(reading).n THEN last ELSE "normalized"]])

\* The then of Promise.all runs
FilesRead ==
  /\ reading # <<>> /\ Head(reading).results # <<>>
  /\ CanUnmount
  /\ CBecomes(UploadProcessed(CCur, Head(reading).results))

\* Back of the preview (part_001:159-161, 177)
PreviewBack ==
  /\ appState = "preview"
  /\ CBecomes([CCur EXCEPT !.appState = "capture", !.readyCalls = 0])

\* Start Over of the preview (part_001:154-157, 178)
PreviewStartOver ==
  /\ appState = "preview"
  /\ CBecomes(handleBack(CCur))

\* The screens around the capture
Navigation ==
  \/ HandleStart
  \/ SelectLayout
  \/ ChooseBack
  \/ PreviewBack
  \/ PreviewStartOver

\* The camera path
CaptureNext ==
  \/ Navigation
  \/ StartCamera
  \/ GetUserMediaResolved
  \/ GetUserMediaRejected
  \/ VideoMetadataLoaded
  \/ TrackEnded
  \/ SetTimerDuration
  \/ TakePhoto
  \/ IntervalTick
  \/ OrphanTick
  \/ DeletePhoto
  \/ CameraBack
  \/ HandleDone

\* The upload path
UploadNext ==
  \/ Navigation
  \/ FilesChosen
  \/ FilesLoaded
  \/ FilesRead

\* The camera: its requests, its retries, and the leaving of the screen
CameraNext ==
  \/ HandleStart
  \/ SelectLayout
  \/ ChooseBack
  \/ StartCamera
  \/ StartCameraAgain
  \/ GetUserMediaResolved
  \/ GetUserMediaRejected
  \/ GetUserMediaOverconstrained
  \/ OrphanRequestSettles
  \/ VideoMetadataLoaded
  \/ TrackEnded
  \/ RetryCamera
  \/ RetryWaitOver
  \/ CameraBack

CameraSpec == CaptureSpecInit /\ [][CameraNext]_vars

\* Camera and upload together, from the landing page to the preview and
\* back
FlowNext ==
  \/ Navigation
  \/ StartCamera
  \/ GetUserMediaResolved
  \/ VideoMetadataLoaded
  \/ TakePhoto
  \/ IntervalTick
  \/ DeletePhoto
  \/ CameraBack
  \/ HandleDone
  \/ ImageFilesChosen
  \/ FilesLoadedOrOneFailed
  \/ FilesRead

FlowSpec == CaptureSpecInit /\ [][FlowNext]_vars

UploadSpec == CaptureSpecInit /\ [][UploadNext]_vars

CaptureSpec == CaptureSpecInit /\ [][CaptureNext]_vars

\* The browser runs the callback of every active interval.
CaptureLiveSpec ==
  /\ CaptureSpecInit /\ [][CaptureNext]_vars
  /\ WF_vars(IntervalTick) /\ WF_vars(OrphanTick)


(***************************************************************************)
(* The compositor: generateHighQualityStrip (PhotoStripPreview.tsx:48-156) *)
(* and the handlers that call it.                                          *)
(***************************************************************************)
padding  == 40 * scale     \* line 55
photoGap == 20 * scale     \* line 56

\* line 42, in the render whose state is the current one
isGrayscale == colorMode = "bw"

\* The sizes with a fault: the grid without the gap between its columns
\* and rows.
GeometryGridNoGap(layout, n) ==
  IF layout \in {"strip-3", "strip-4"}
  THEN [photoWidth |-> 600 * scale, photoHeight |-> 600 * scale,
        canvasWidth |-> 600 * scale + padding * 2,
        canvasHeight |-> padding * 2 + n * (600 * scale) + (n - 1) * photoGap]
  ELSE IF layout = "grid-4"
  THEN [photoWidth |-> 450 * scale, photoHeight |-> 450 * scale,
        canvasWidth |-> padding * 2 + 2 * (450 * scale),
        canvasHeight |-> padding * 2 + 2 * (450 * scale)]
  ELSE [photoWidth |-> 800 * scale, photoHeight |-> 300 * scale,
        canvasWidth |-> 800 * scale + padding * 2,
        canvasHeight |-> padding * 2 + n * (300 * scale) + (n - 1) * photoGap]

\* The sizes of a cell and of the canvas, lines 63-82; n is photos.length
Geometry(layout, n) ==
  IF layout \in {"strip-3", "strip-4"}
  THEN [photoWidth |-> 600 * scale, photoHeight |-> 600 * scale,
        canvasWidth |-> 600 * scale + padding * 2,
        canvasHeight |-> padding * 2 + n * (600 * scale) + (n - 1) * photoGap]
  ELSE IF layout = "grid-4"
  THEN [photoWidth |-> 450 * scale, photoHeight |-> 450 * scale,
        canvasWidth |-> padding * 2 + 2 * (450 * scale) + photoGap,
        canvasHeight |-> padding * 2 + 2 * (450 * scale) + photoGap]
  ELSE [photoWidth |-> 800 * scale, photoHeight |-> 300 * scale,
        canvasWidth |-> 800 * scale + padding * 2,
        canvasHeight |-> padding * 2 + n * (300 * scale) + (n - 1) * photoGap]

\* The placement with a fault: the grid is filled column by column.
CellColumnMajor(layout, index, g) ==
  IF layout = "grid-4"
  THEN [x |-> padding + (index \div 2) * (g.photoWidth + photoGap),
        y |-> padding + (index % 2) * (g.photoHeight + photoGap),
        w |-> g.photoWidth, h |-> g.photoHeight]
  ELSE [x |-> padding,
        y |-> padding + index * (g.photoHeight + photoGap),
        w |-> g.photoWidth, h |-> g.photoHeight]

\* Where the image of index (from 0) is drawn, lines 110-132.  The strips
\* (113-117) and the wide layout (125-130) are placed alike.
Cell(layout, index, g) ==
  IF layout = "grid-4"
  THEN [x |-> padding + (index % 2) * (g.photoWidth + photoGap),
        y |-> padding + (index \div 2) * (g.photoHeight + photoGap),
        w |-> g.photoWidth, h |-> g.photoHeight]
  ELSE [x |-> padding,
        y |-> padding + index * (g.photoHeight + photoGap),
        w |-> g.photoWidth, h |-> g.photoHeight]

\* The store of the number num / den into a Uint8ClampedArray: rounded to
\* the nearest integer, a tie to the even one, and kept within 0..255.
Uint8Clamped(num, den) ==
  LET q == num \div den
      r == num % den
      rounded == IF 2 * r > den THEN q + 1
                 ELSE IF 2 * r < den THEN q
                 ELSE IF q % 2 = 0 THEN q ELSE q + 1
  IN  IF rounded > MaxChannel THEN MaxChannel ELSE rounded

\* The body of the grayscale loop with a fault: the sum is divided by 4.
GrayDarkens(p) ==
  LET avg == Uint8Clamped(p[1] + p[2] + p[3], 4)
  IN  <<avg, avg, avg, p[4]>>

\* The body of the grayscale loop for one pixel, lines 140-143
Gray(p) ==
  LET avg == Uint8Clamped(p[1] + p[2] + p[3], 3)
  IN  <<avg, avg, avg, p[4]>>

\* The images a FrameSet is made of here: one in colour, one gray
Images == {<<233, 30, 99, MaxChannel>>, <<102, 102, 102, MaxChannel>>}

\* What a call that threw leaves: no data URL
NoComposite(error) ==
  [ok |-> FALSE, error |-> error, width |-> 0, height |-> 0,
   background |-> White, cells |-> <<>>,
   watermark |-> [fill |-> "none", x |-> 0, y |-> 0, px |-> 0]]

\* The canvas as drawn (lines 84-89, 106-152): the background, every image
\* in its cell, the grayscale loop over the whole canvas, then the
\* watermark.
Drawn(imgs, layout, gray, fill) ==
  LET g == Geometry(layout, Len(imgs))
      Tone(p) == IF gray THEN Gray(p) ELSE p
  IN  [ok |-> TRUE, error |-> "none",
       width |-> g.canvasWidth, height |-> g.canvasHeight,
       background |-> Tone(White),
       cells |-> [k \in 1..Len(imgs) |->
                    [at |-> Cell(layout, k - 1, g), pixel |-> Tone(imgs[k])]],
       watermark |-> [fill |-> fill, x |-> g.canvasWidth \div 2,
                      y |-> g.canvasHeight - padding \div 2, px |-> 20 * scale]]

\* generateHighQualityStrip with a fault: the fill style is the one the
\* call before left.
GenerateOnUsedCanvas(imgs, layout, gray, loads) ==
  IF \E k \in 1..Len(imgs) : ~loads[k]
  THEN NoComposite("Failed to load image")
  ELSE Drawn(imgs, layout, gray,
             IF composites # <<>>
             THEN IF composites[Len(composites)].isGrayscale
                  THEN "#666666" ELSE "#e91e63"
             ELSE IF gray THEN "#666666" ELSE "#e91e63")

\* generateHighQualityStrip with a fault: the watermark is always pink.
GeneratePinkWatermark(imgs, layout, gray, loads) ==
  IF \E k \in 1..Len(imgs) : ~loads[k]
  THEN NoComposite("Failed to load image")
  ELSE Drawn(imgs, layout, gray, "#e91e63")

\* generateHighQualityStrip with a fault: an image that does not load is
\* left out.
GenerateSkipsFailed(imgs, layout, gray, loads) ==
  LET all == Drawn(imgs, layout, gray, IF gray THEN "#666666" ELSE "#e91e63")
      loaded == SelectSeq([k \in 1..Len(imgs) |-> k], LAMBDA k : loads[k])
  IN  [all EXCEPT !.cells = [j \in 1..Len(loaded) |-> all.cells[loaded[j]]]]

\* generateHighQualityStrip, lines 48-156, for the closure's photos, layout
\* and isGrayscale; loads tells of each image whether it loaded (99) or not
\* (100).  Promise.all rejects when one did not, before anything is drawn
\* over the background.
Generate(imgs, layout, gray, loads) ==
  IF \E k \in 1..Len(imgs) : ~loads[k]
  THEN NoComposite("Failed to load image")
  ELSE Drawn(imgs, layout, gray, IF gray THEN "#666666" ELSE "#e91e63")

\* A handler about to use generateHighQualityStrip: the function is the
\* one of the render in which the handler was created (useCallback, 156).
\* handleDownload calls it at once (168); handleBluetoothPrint calls it once
\* the link is there (252-258), and until then calledIn is "pending".
Call(c) ==
  [caller |-> c, isGrayscale |-> isGrayscale, requestedIn |-> colorMode,
   calledIn |-> IF c = "print" THEN "pending" ELSE colorMode]

Settled(call, out) ==
  [caller |-> call.caller, isGrayscale |-> call.isGrayscale,
   requestedIn |-> call.requestedIn, calledIn |-> call.calledIn,
   output |-> out]

Room == Len(composites) + Len(generating) < MaxComposites

\* The photos prop holds as many images as the layout has cells: the
\* capture screen hands over nothing else.
CompositorInit ==
  /\ \E k \in 1..Len(STRIP_LAYOUTS) :
       /\ propLayout = STRIP_LAYOUTS[k].id
       /\ propPhotos \in [1..STRIP_LAYOUTS[k].photoCount -> Images]
  /\ colorMode = "color"
  /\ NothingComposed
  /\ PixelAtRest

\* The Color and B&W buttons, lines 470-486
ToggleColorMode ==
  /\ \E m \in {"color", "bw"} : m # colorMode /\ colorMode' = m
  /\ UNCHANGED <<printVars, dlVars, capVars, propPhotos, propLayout,
                 generating, composites, delivered, notice,
                 pixel, passes, firstPass>>

\* Download (line 495): handleDownload up to its await of the composite
DownloadClicked ==
  /\ ~isDownloading /\ downloads < MaxDownloads /\ Room
  /\ DAssign(handleDownload(DCur))
  /\ generating' = Append(generating, Call("download"))
  /\ UNCHANGED <<printVars, capVars, propPhotos, propLayout, colorMode,
                 composites, delivered, notice, pixel, passes, firstPass>>

\* Print (line 503): handlePrint, whose handleBluetoothPrint will ask for
\* the composite at line 258.  One print session at a time (line 369).
PrintClicked ==
  /\ \A k \in 1..Len(generating) : generating[k].caller = "download"
  /\ Room
  /\ generating' = Append(generating, Call("print"))
  /\ UNCHANGED <<printVars, dlVars, capVars, propPhotos, propLayout, colorMode,
                 composites, delivered, notice, pixel, passes, firstPass>>

\* The composite of handleDownload settles: lines 168-193
DownloadCompositeSettles ==
  /\ generating # <<>> /\ Head(generating).caller = "download"
  /\ \E loads \in [1..Len(propPhotos) -> BOOLEAN] :
       LET call == Head(generating)
           out == Generate(propPhotos, propLayout, call.isGrayscale, loads)
       IN  /\ composites' = Append(composites, Settled(call, out))
           /\ generating' = Tail(generating)
           /\ IF out.ok
              THEN /\ DAssign(DownloadGenerated(DCur, PngDataUrl))
                   /\ delivered' = Append(delivered, [to |-> "download",
                                                      output |-> out])
              ELSE /\ DAssign(DownloadGenerateFailed(DCur))
                   /\ delivered' = delivered
  /\ UNCHANGED <<printVars, capVars, propPhotos, propLayout, colorMode,
                 notice, pixel, passes, firstPass>>

\* The chooser and gatt.connect() have resolved (216, 252): the handler that
\* was created at the click calls its generateHighQualityStrip (258).
PrintReachesComposite ==
  /\ generating # <<>> /\ Head(generating).caller = "print"
  /\ Head(generating).calledIn = "pending"
  /\ generating' = [generating EXCEPT ![1].calledIn = colorMode]
  /\ UNCHANGED <<printVars, dlVars, capVars, propPhotos, propLayout, colorMode,
                 composites, delivered, notice, pixel, passes, firstPass>>

\* The composite of handleBluetoothPrint settles (258).  With a composite
\* the bytes go to the peripheral (261-296), unless no characteristic can
\* be written or a later step throws: then, as when the composite failed,
\* handleSystemPrint is called (298-308) and asks for the composite again
\* (316), with the function of the same render.
PrintCompositeSettles ==
  /\ generating # <<>> /\ Head(generating).caller = "print"
  /\ Head(generating).calledIn # "pending"
  /\ \E loads \in [1..Len(propPhotos) -> BOOLEAN] : \E written \in BOOLEAN :
       LET call == Head(generating)
           out == Generate(propPhotos, propLayout, call.isGrayscale, loads)
       IN  /\ composites' = Append(composites, Settled(call, out))
           /\ IF out.ok /\ written
              THEN /\ generating' = Tail(generating)
                   /\ delivered' = Append(delivered, [to |-> "peripheral",
                                                      output |-> out])
                   /\ notice' = "Sent to printer!"
              ELSE /\ Len(composites) + Len(generating) < MaxComposites
                   /\ generating' = Append(Tail(generating),
                                           [call EXCEPT !.caller = "system",
                                                        !.calledIn = colorMode])
                   /\ delivered' = delivered
                   /\ notice' = "Opening system print dialog instead..."
  /\ UNCHANGED <<printVars, dlVars, capVars, propPhotos, propLayout, colorMode,
                 pixel, passes, firstPass>>

\* The composite of handleSystemPrint settles: lines 316-362
SystemPrintCompositeSettles ==
  /\ generating # <<>> /\ Head(generating).caller = "system"
  /\ \E loads \in [1..Len(propPhotos) -> BOOLEAN] : \E opened \in BOOLEAN :
       LET call == Head(generating)
           out == Generate(propPhotos, propLayout, call.isGrayscale, loads)
       IN  /\ composites' = Append(composites, Settled(call, out))
           /\ generating' = Tail(generating)
           /\ IF out.ok /\ opened
              THEN /\ delivered' = Append(delivered, [to |-> "dialog",
                                                      output |-> out])
                   /\ notice' = notice
              ELSE /\ delivered' = delivered
                   /\ notice' = IF out.ok
                                THEN "Please allow popups to print"
                                ELSE "Failed to print. Please try again."
  /\ UNCHANGED <<printVars, dlVars, capVars, propPhotos, propLayout, colorMode,
                 pixel, passes, firstPass>>

CompositorNext ==
  \/ ToggleColorMode
  \/ DownloadClicked
  \/ PrintClicked
  \/ PrintReachesComposite
  \/ DownloadCompositeSettles
  \/ PrintCompositeSettles
  \/ SystemPrintCompositeSettles

CompositorSpecInit ==
  /\ PrintInit /\ bluetoothSupported /\ DownloadInit /\ ~isWebView
  /\ CaptureInit /\ CompositorInit

CompositorSpec == CompositorSpecInit /\ [][CompositorNext]_vars

\* The pixels the grayscale loop is followed on.  What the loop stores
\* depends on R + G + B only, and these pixels have every sum there is.
Pixels ==
  {<<r, g, b, a>> : r \in 0..MaxChannel, g \in {0, MaxChannel},
                    b \in {0, MaxChannel}, a \in {0, MaxChannel}}

PixelInit ==
  /\ pixel \in Pixels /\ passes = 0 /\ firstPass = pixel
  /\ propPhotos = <<>> /\ propLayout = "strip-3" /\ colorMode = "color"
  /\ NothingComposed

\* One run of the grayscale loop over the pixel, lines 139-145
GrayscalePass ==
  /\ passes < MaxPasses
  /\ pixel' = Gray(pixel)
  /\ passes' = passes + 1
  /\ firstPass' = IF passes = 0 THEN Gray(pixel) ELSE firstPass
  /\ UNCHANGED <<printVars, dlVars, capVars, propPhotos, propLayout, colorMode,
                 generating, composites, delivered, notice>>

PixelSpecInit ==
  /\ PrintInit /\ ~bluetoothSupported /\ DownloadInit /\ ~isWebView
  /\ CaptureInit /\ PixelInit

PixelSpec == PixelSpecInit /\ [][GrayscalePass]_vars


(***************************************************************************)
(* Properties.                                                             *)
(***************************************************************************)
Failed(k)  == writes[k].status = "failed"
Pending(k) == writes[k].status = "pending"
NoWriteFailed == \A k \in 1..Len(writes) : ~Failed(k)
SessionEnded  == pc = "idle" /\ outcome # "none"

RECURSIVE Concat(_)
Concat(ws) == IF ws = <<>> THEN <<>> ELSE ws[1].data \o Concat(Tail(ws))

\* C1: a session reaches Done ('Sent to printer!') only if every writeValue
\* call of the session succeeded; a session in which a write failed ends in
\* the system print fallback.
C1_DoneOnlyIfEveryWriteSucceeded ==
  /\ outcome = "done" => NoWriteFailed
  /\ (SessionEnded /\ ~NoWriteFailed) => outcome = "fallback"

\* C2: with no failed write, the writes of the session are the chunks of the
\* buffer in ascending offset order, each at most chunkSize bytes, all to one
\* characteristic; a session that reached Done issued exactly
\* ceil(N / chunkSize) of them and their concatenation is the buffer.
C2_ChunkedWrites ==
  NoWriteFailed =>
    /\ \A k \in 1..Len(writes) :
         /\ writes[k].off = (k - 1) * chunkSize
         /\ Len(writes[k].data) \in 1..chunkSize
         /\ writes[k].svc = writes[1].svc /\ writes[k].chr = writes[1].chr
    /\ outcome = "done" =>
         /\ Len(writes) = CeilDiv(Len(bytes), chunkSize)
         /\ Concat(writes) = bytes

C2_Witness ==
  /\ outcome = "done" /\ NoWriteFailed
  /\ Len(bytes) = chunkSize + 1 /\ Len(writes) = 2

\* C3: at most one writeValue is outstanding, and it is the one issued
\* last: every earlier write had settled when a later one was issued.
C3_SequentialWrites ==
  \A k \in 1..Len(writes) : Pending(k) => k = Len(writes)

C3_Witness ==
  /\ pc = "write" /\ Len(writes) = 2
  /\ writes[1].status = "ok" /\ Pending(2)

\* C4: a session whose link was established and whose peripheral exposed no
\* writable characteristic called handleSystemPrint (once), wrote nothing
\* and is idle again.
C4_NoWritableFallsBack ==
  (pc = "idle" /\ linkOpened /\ servicesListed /\ ~sawWritable) =>
    /\ outcome = "fallback" /\ sysPrintCalls = 1 /\ dialog # "none"
    /\ writes = <<>>
    /\ ~isPrinting /\ ~isScanning

C4_Witness ==
  /\ pc = "idle" /\ linkOpened /\ servicesListed /\ ~sawWritable
  /\ services = 2 /\ dialog = "opened"

\* C5: a session that opened a link (gatt.connect resolved) has called
\* server.disconnect() by the time it is idle again.
C5_LinkClosedWhenIdle ==
  (pc = "idle" /\ linkOpened) => disconnects >= 1

\* C6: at most one print session is in flight at any time.
ActiveSessions == detached + (IF pc = "idle" THEN 0 ELSE 1)

C6_AtMostOneSession == ActiveSessions <= 1

NoDeviceSelected == <<[kind |-> "info", msg |-> "No device selected"]>>

\* C7, as claimed: after a cancelled device selection the pipeline is idle
\* with no connected device recorded, one informational toast and no other,
\* no connect and no fallback.
C7_CancelLeavesNoDevice ==
  (pc = "idle" /\ outcome = "cancelled") =>
    /\ ~isScanning /\ ~isPrinting /\ connectedDevice = Null
    /\ toasts = NoDeviceSelected
    /\ connects = 0 /\ sysPrintCalls = 0

\* C7, amended: the cancelled device selection returns the pipeline to idle
\* and leaves connectedDevice as it was before the request (null unless an
\* earlier session recorded a device); it shows one informational toast and
\* no other, and neither connects nor calls the fallback.
C7_CancelRecordsNoDevice ==
  [][(pc = "scan" /\ outcome' = "cancelled") =>
       /\ pc' = "idle" /\ ~isScanning' /\ ~isPrinting'
       /\ connectedDevice' = connectedDevice
       /\ gattConnected' = gattConnected
       /\ toasts' = NoDeviceSelected
       /\ connects' = 0 /\ sysPrintCalls' = 0 /\ dialog' = "none"]_vars

C7_Witness ==
  /\ pc = "idle" /\ outcome = "cancelled" /\ connectedDevice # Null

\* C8: when every platform promise settles, a session in any state is
\* followed by a state with isScanning = false and isPrinting = false.
C8_EventuallyIdle ==
  (pc # "idle" \/ isScanning \/ isPrinting)
    ~> (pc = "idle" /\ ~isScanning /\ ~isPrinting)

C8_Witness ==
  /\ pc = "idle" /\ ~isScanning /\ ~isPrinting
  /\ outcome = "fallback" /\ dialog = "blocked"
  /\ \E k \in 1..Len(writes) : Failed(k)

\* C9: a session that reached Done leaves its device in connectedDevice;
\* a print request that starts a session goes straight to printing on
\* connectedDevice, without a scan, when its link is live at the request, and
\* starts a scan otherwise.
C9_ReuseLiveLink ==
  /\ [](outcome = "done" => (connectedDevice = device /\ device # Null))
  /\ [][(pc = "idle" /\ pc' # "idle") =>
          IF LinkLive(Cur)
          THEN /\ pc' = "connect" /\ caller' = "print"
               /\ device' = connectedDevice /\ connectedDevice' = connectedDevice
               /\ isPrinting' /\ ~isScanning' /\ scans' = 0
          ELSE /\ pc' = "scan" /\ caller' = "scan"
               /\ isScanning' /\ ~isPrinting' /\ scans' = 1 /\ connects' = 0]_vars

C9_Witness ==
  /\ pc = "connect" /\ caller = "print" /\ scans = 0
  /\ device = connectedDevice

NotSupported ==
  <<[kind |-> "error",
     msg |-> "Bluetooth not supported. Use Chrome or Edge browser."]>>

\* C10: a print request on a platform without Web Bluetooth shows the
\* capability error and changes nothing else: no flag, no device, no scan,
\* no connect, no fallback.
C10_UnsupportedChangesNothing ==
  [][(~bluetoothSupported /\ Len(toasts') > Len(toasts)) =>
       /\ toasts' = NotSupported /\ outcome' = "unsupported"
       /\ UNCHANGED <<isScanning, isPrinting, connectedDevice, gattConnected,
                      pc, scans, connects, sysPrintCalls, dialog, writes>>]_vars

C10_Witness ==
  /\ ~bluetoothSupported /\ toasts = NotSupported
  /\ pc = "idle" /\ ~isScanning /\ ~isPrinting /\ connectedDevice = Null

\* C11: a session whose link to the chosen peripheral was not established
\* (the device has no gatt, or gatt.connect() rejected or gave no server)
\* has called handleSystemPrint once and issued no writeValue, asked for no
\* service, and once its fallback is over it is idle with both flags false.
C11_NoLinkFallsBack ==
  (device # Null /\ pc # "connect" /\ ~linkOpened) =>
    /\ outcome = "fallback" /\ fallbackFrom = "catch" /\ sysPrintCalls = 1
    /\ writes = <<>> /\ ~servicesListed /\ disconnects = 0
    /\ pc \in {"sysGen", "idle"}
    /\ pc = "idle" => (dialog # "none" /\ ~isPrinting /\ ~isScanning)

\* gatt.connect() was called and failed, and the fallback dialog was opened.
C11_Witness ==
  /\ device # Null /\ device.hasGatt /\ connects = 1 /\ ~linkOpened
  /\ pc = "idle" /\ outcome = "fallback" /\ dialog = "opened"

\* C12: at most one download (composite generation plus delivery) is in
\* flight at any time.
DownloadsInFlight == dlDetached + (IF dlPc = "idle" THEN 0 ELSE 1)

C12_DownloadsNeverOverlap == DownloadsInFlight <= 1

\* C13: an object URL that was released was released no earlier than its
\* grace delay after its save action was triggered.
C13_ReleasedAfterGrace ==
  \A k \in 1..Len(urls) :
    urls[k].revokedAt # -1 =>
      urls[k].revokedAt >= urls[k].createdAt + urls[k].grace

\* C14: every call of downloadImage returned (nothing was thrown): true
\* after exactly one save action, or false after none, and with
\* isDownloadingRef false.
C14_DownloadImageReturnsBoolean ==
  \A k \in 1..Len(calls) :
    /\ calls[k].result \in {"true", "false"}
    /\ calls[k].saved = (IF calls[k].result = "true" THEN 1 ELSE 0)
    /\ ~calls[k].refAtReturn
    /\ ~isDownloadingRef

\* One call with a string that has no comma, one with a data URL.
C14_Witness ==
  /\ Len(calls) = 2 /\ saves = 1
  /\ calls[1].dataUrl.payload = "absent" /\ calls[1].result = "false"
  /\ calls[2].dataUrl.payload = "base64" /\ calls[2].result = "true"

\* C15: the FrameSet never holds more frames than the selected layout asks
\* for.
C15_FrameSetWithinLayout == Len(photos) <= selectedLayout.photoCount

\* A complete set of the larger size, on the camera screen.
C15_Witness ==
  /\ appState = "capture" /\ mode = "camera"
  /\ Len(photos) = 4 /\ selectedLayout.photoCount = 4

\* C16: at most one countdown timer is active at any time.
TimersActive == (IF interval THEN 1 ELSE 0) + Len(orphans)

C16_AtMostOneTimer == TimersActive <= 1

\* C17: while the countdown of the capture screen runs it shows its
\* duration less the ticks so far and has captured nothing; a tick lowers it
\* by one, except the tick at 1, which is tick number d, ends the interval,
\* clears the countdown and calls capturePhoto, once; a change of the
\* selected duration leaves a running countdown alone.
C17_CountdownTicks ==
  /\ [](interval => /\ startedWith \in TimerOptions
                     /\ countdown = startedWith - ticks /\ countdown >= 1
                     /\ fired = 0)
  /\ [][(interval /\ ticks' = ticks + 1) =>
          IF countdown = 1
          THEN /\ ticks' = startedWith /\ fired' = 1
               /\ ~interval' /\ countdown' = 0
          ELSE /\ countdown' = countdown - 1 /\ interval' /\ fired' = 0
               /\ photos' = photos /\ startedWith' = startedWith]_vars
  /\ [][(interval /\ timerDuration' # timerDuration /\ appState' = "capture") =>
          UNCHANGED <<interval, countdown, ticks, startedWith, fired>>]_vars

\* A countdown of 10 has fired on its tenth tick and taken a frame.
C17_Witness ==
  /\ ~interval /\ fired = 1 /\ startedWith = 10 /\ ticks = 10
  /\ countdown = 0 /\ timerDuration = 3 /\ photos # <<>>

\* C18: every interval timer that is active is cleared eventually.
C18_CountdownCompletes == (TimersActive > 0) ~> (TimersActive = 0)

Deleted == "Photo deleted. Take another!"

\* C19: with a complete FrameSet on the camera screen no countdown runs and
\* the camera is ready; deleting a frame from it leaves photoCount - 1
\* frames and Take Photo enabled; and the last tick of a countdown on the
\* camera screen, the video having a picture, appends a frame.
C19_DeleteAllowsRecapture ==
  /\ []((appState = "capture" /\ mode = "camera"
          /\ Len(photos) = selectedLayout.photoCount) =>
           (countdown = 0 /\ ~interval /\ cameraReady))
  /\ [][(mode = "camera" /\ Len(photos) = selectedLayout.photoCount
          /\ capToast' = Deleted
          /\ (capToast # Deleted \/ photos' # photos)) =>
           /\ Len(photos') = selectedLayout.photoCount - 1
           /\ selectedLayout' = selectedLayout /\ mode' = "camera"
           /\ countdown' = 0 /\ cameraReady']_vars
  /\ [][(interval /\ countdown = 1 /\ ticks' = ticks + 1
          /\ mode = "camera" /\ videoReady) =>
           photos' = Append(photos, CameraFrame)]_vars

\* A countdown is running for the slot that a deletion from a complete set
\* made free.
C19_Witness ==
  /\ appState = "capture" /\ mode = "camera" /\ capToast = Deleted
  /\ Len(photos) = selectedLayout.photoCount - 1
  /\ interval /\ cameraReady

\* C20: whatever the state of the choose screen, a batch of the wrong size
\* or with a file that is not an image starts no read, calls onPhotosReady
\* not, and changes neither the mode, the photos nor the screen shown.
C20_BadBatchRejected ==
  \A files \in Batches :
    (\/ Len(files) # selectedLayout.photoCount
     \/ \E k \in 1..Len(files) : ~ValidFile(files[k])) =>
      LET r == handleFileUpload(CCur, files)
      IN  /\ r.reading = reading /\ r.fileReads = fileReads
          /\ r.uploadsAccepted = uploadsAccepted
          /\ r.readyCalls = readyCalls
          /\ r.mode = mode /\ r.photos = photos /\ r.appState = appState
          /\ r.selectedLayout = selectedLayout
          /\ r.idxPhotos = idxPhotos /\ r.idxLayout = idxLayout

\* A batch of the right size with a file that is no image was turned down.
C20_Witness ==
  /\ appState = "capture" /\ mode = "choose"
  /\ capToast = "Please select only image files"
  /\ reading = <<>> /\ fileReads = 0 /\ readyCalls = 0

\* C21: when the reads of a batch are over, the batch is handed to
\* onPhotosReady exactly when every one of its photoCount files gave a
\* picture, as one frame per file in the order of the files and with the
\* layout the files were chosen for; otherwise nothing is handed over, the
\* screen and its photos stay as they are, and the toast names how many
\* files gave a picture.
C21_NoPartialAcceptance ==
  [][Len(reading') < Len(reading) =>
       LET batch == Head(reading)
           n == batch.layout.photoCount
           results == batch.results
           ok == {k \in 1..Len(results) : results[k] # ""}
       IN  /\ Len(results) = n
           /\ IF Cardinality(ok) = n
              THEN /\ readyCalls' = readyCalls + 1
                   /\ appState' = "preview" /\ idxLayout' = batch.layout.id
                   /\ Len(idxPhotos') = n
                   /\ \A k \in 1..n : /\ idxPhotos'[k].from = "upload"
                                      /\ idxPhotos'[k].file = k
                                      /\ idxPhotos'[k].raster = results[k]
                   /\ capToast' = "Photos uploaded successfully!"
              ELSE /\ UNCHANGED <<readyCalls, appState, idxPhotos, idxLayout,
                                  mode, photos>>
                   /\ capToast' = OnlySomeLoaded(Cardinality(ok), n)]_vars

\* Three of the four files of a batch gave a picture and the batch was
\* turned down.
C21_Witness ==
  /\ appState = "capture" /\ readyCalls = 0 /\ idxPhotos = <<>>
  /\ selectedLayout.photoCount = 4 /\ reading = <<>> /\ fileReads = 4
  /\ capToast = "Only 3 of 4 photos loaded. Please try again."

\* C22: every frame of the FrameSet the preview gets is a 1000 x 1000
\* centre crop.
C22_FramesNormalized ==
  \A k \in 1..Len(idxPhotos) : idxPhotos[k].raster = "normalized"

\* C23: outside the camera screen no stream obtained from getUserMedia has
\* running tracks.
C23_NoStreamOutsideCamera ==
  (appState # "capture" \/ mode # "camera") => liveStreams = 0

\* C24: the Try Again button is there exactly when the permission state is
\* denied or error.
C24_RetryIffDeniedOrError ==
  TryAgainShown(CCur) <=> permissionState \in {"denied", "error"}

\* The buttons of the selector whose layout has the id of the selected one
\* (StripLayoutSelector.tsx:85)
Highlighted ==
  {k \in 1..Len(STRIP_LAYOUTS) : selectedLayout.id = STRIP_LAYOUTS[k].id}

\* C25: the catalog has four layouts with four different ids, each of 3 or
\* 4 photos; the selected layout, the layout a batch is read for and the
\* layout id the preview gets are always from it; and the id of the
\* selected layout names one entry of the catalog, the selected one.
C25_CatalogFixed ==
  /\ Len(STRIP_LAYOUTS) = 4
  /\ \A j, k \in 1..Len(STRIP_LAYOUTS) :
       j # k => STRIP_LAYOUTS[j].id # STRIP_LAYOUTS[k].id
  /\ \A k \in 1..Len(STRIP_LAYOUTS) : STRIP_LAYOUTS[k].photoCount \in {3, 4}
  /\ \E k \in 1..Len(STRIP_LAYOUTS) :
       selectedLayout = STRIP_LAYOUTS[k] /\ Highlighted = {k}
  /\ \A b \in 1..Len(reading) :
       \E k \in 1..Len(STRIP_LAYOUTS) : reading[b].layout = STRIP_LAYOUTS[k]
  /\ \E k \in 1..Len(STRIP_LAYOUTS) : idxLayout = STRIP_LAYOUTS[k].id

\* The preview shows an upload for the grid while the capture screen, shown
\* again since, has the first layout selected.
C25_Witness ==
  /\ appState = "preview" /\ idxLayout = "grid-4" /\ Len(idxPhotos) = 4
  /\ selectedLayout = STRIP_LAYOUTS[1]

\* C26: for the grid with four frames every cell is 1800 x 1800 and the
\* canvas is a square of side padding * 2 + 2 * 1800 + gap, with padding
\* 160 and gap 80.
C26_GridCanvasOneGap ==
  /\ padding = 160 /\ photoGap = 80
  /\ \A k \in 1..Len(composites) :
       (propLayout = "grid-4" /\ Len(propPhotos) = 4
         /\ composites[k].output.ok) =>
         LET out == composites[k].output
         IN  /\ \A c \in 1..Len(out.cells) :
                  out.cells[c].at.w = 1800 /\ out.cells[c].at.h = 1800
             /\ out.width = padding * 2 + 2 * 1800 + photoGap
             /\ out.height = padding * 2 + 2 * 1800 + photoGap

\* C26 as stated: the side of the canvas is padding * 2 + 2 * 1800 + gap * 4.
C26_GridCanvasFourGaps ==
  /\ padding = 160 /\ photoGap = 80
  /\ \A k \in 1..Len(composites) :
       (propLayout = "grid-4" /\ Len(propPhotos) = 4
         /\ composites[k].output.ok) =>
         LET out == composites[k].output
         IN  /\ \A c \in 1..Len(out.cells) :
                  out.cells[c].at.w = 1800 /\ out.cells[c].at.h = 1800
             /\ out.width = padding * 2 + 2 * 1800 + photoGap * 4
             /\ out.height = padding * 2 + 2 * 1800 + photoGap * 4

\* A composite of four frames in the grid was made.
C26_Witness ==
  /\ propLayout = "grid-4" /\ Len(propPhotos) = 4
  /\ \E k \in 1..Len(composites) :
       composites[k].output.ok /\ Len(composites[k].output.cells) = 4

C28_GrayscaleIdempotent ==
  /\ [](passes >= 1 => pixel = firstPass)
  /\ [][/\ pixel'[4] = pixel[4]
        /\ pixel'[1] = pixel'[2] /\ pixel'[2] = pixel'[3]
        /\ pixel'[1] \in 0..MaxChannel
        /\ passes >= 1 => pixel' = pixel]_vars

\* The loop has run twice over a pixel that was not gray.
C28_Witness ==
  /\ passes = 2 /\ pixel = <<128, 128, 128, 0>> /\ firstPass = pixel

C30_DecodeFailureAborts ==
  /\ [](\A k \in 1..Len(delivered) :
          /\ delivered[k].output.ok
          /\ Len(delivered[k].output.cells) = Len(propPhotos))
  /\ [][(/\ Len(composites') > Len(composites)
         /\ ~composites'[Len(composites')].output.ok) =>
          LET c == composites'[Len(composites')]
          IN  /\ c.output.cells = <<>> /\ c.output.error = "Failed to load image"
              /\ delivered' = delivered
              /\ UNCHANGED <<saves, urls, calls>>
              /\ c.caller = "download" =>
                   /\ ~isDownloading' /\ dlPc' = "idle"
                   /\ dlToasts' = Append(dlToasts,
                        [kind |-> "error",
                         msg |-> "Failed to generate image. Please try again."])
              /\ c.caller = "print" =>
                   /\ notice' = "Opening system print dialog instead..."
                   /\ generating'[Len(generating')].caller = "system"
              /\ c.caller = "system" =>
                   notice' = "Failed to print. Please try again."]_vars

\* A download whose composite failed: nothing handed on, the button
\* enabled again.
C30_Witness ==
  /\ composites # <<>>
  /\ ~composites[Len(composites)].output.ok
  /\ composites[Len(composites)].caller = "download"
  /\ delivered = <<>> /\ saves = 0 /\ ~isDownloading
  /\ dlToasts # <<>> /\ dlToasts[Len(dlToasts)].kind = "error"

\* C31: whenever the preview is shown, the layout id stored with the photos
\* is one of the catalog and the photos are as many as that layout has
\* cells.
C31_PreviewHasCompleteFrameSet ==
  appState = "preview" =>
    \E k \in 1..Len(STRIP_LAYOUTS) :
      /\ idxLayout = STRIP_LAYOUTS[k].id
      /\ Len(idxPhotos) = STRIP_LAYOUTS[k].photoCount

\* The preview shows the four photos of an upload that was still being
\* read when photos taken with the camera were shown.
C31_Witness ==
  /\ appState = "preview" /\ readyCalls = 2
  /\ Len(idxPhotos) = 4
  /\ \A k \in 1..4 : idxPhotos[k].from = "upload"

\* C32: in every composite the frame of index i (from 0) fills the cell
\* at x = padding, y = padding + i * (cellHeight + gap) for the strips and
\* the wide layout, and at column i % 2, row floor(i / 2) for the grid;
\* the cells are 2400 x 2400, 1800 x 1800 and 3200 x 1200.
C32_CellsFollowFrameOrder ==
  \A k \in 1..Len(composites) :
    composites[k].output.ok =>
      LET out == composites[k].output
          cw == CASE propLayout = "grid-4" -> 1800
                  [] propLayout = "wide-3" -> 3200
                  [] OTHER -> 2400
          ch == CASE propLayout = "grid-4" -> 1800
                  [] propLayout = "wide-3" -> 1200
                  [] OTHER -> 2400
      IN  /\ Len(out.cells) = Len(propPhotos)
          /\ \A c \in 1..Len(out.cells) :
               LET n == c - 1
               IN  /\ out.cells[c].at.w = cw /\ out.cells[c].at.h = ch
                   /\ out.cells[c].pixel =
                        IF composites[k].isGrayscale
                        THEN Gray(propPhotos[c]) ELSE propPhotos[c]
                   /\ IF propLayout = "grid-4"
                      THEN /\ out.cells[c].at.x = padding + (n % 2) * (cw + photoGap)
                           /\ out.cells[c].at.y = padding + (n \div 2) * (ch + photoGap)
                      ELSE /\ out.cells[c].at.x = padding
                           /\ out.cells[c].at.y = padding + n * (ch + photoGap)

\* A composite of the grid whose second and third frame differ.
C32_Witness ==
  /\ propLayout = "grid-4" /\ Len(propPhotos) = 4
  /\ propPhotos[2] # propPhotos[3]
  /\ \E k \in 1..Len(composites) :
       /\ composites[k].output.ok /\ ~composites[k].isGrayscale
       /\ composites[k].output.cells[3].at.x = padding
       /\ composites[k].output.cells[3].at.y = padding + 1800 + photoGap

\* The size of the canvas for each layout of the catalog with its number of
\* frames
CanvasSizes ==
  [layout \in {"strip-3", "strip-4", "grid-4", "wide-3"} |->
     CASE layout = "strip-3" -> <<2720, 7680>>
       [] layout = "strip-4" -> <<2720, 10160>>
       [] layout = "grid-4"  -> <<4000, 4000>>
       [] OTHER              -> <<3520, 4080>>]

\* C33: every composite is at most 4000 px wide and 10160 px high: 2720 x
\* 7680 for three frames in a strip, 2720 x 10160 for four, 4000 x 4000 for
\* the grid and 3520 x 4080 for the wide layout.
C33_CanvasWithinBounds ==
  \A k \in 1..Len(composites) :
    composites[k].output.ok =>
      /\ <<composites[k].output.width, composites[k].output.height>>
           = CanvasSizes[propLayout]
      /\ composites[k].output.width <= 4000
      /\ composites[k].output.height <= 10160

\* C33 as stated: every composite is at most 3200 px wide and 9600 px high.
C33_CanvasWithin3200x9600 ==
  \A k \in 1..Len(composites) :
    composites[k].output.ok =>
      /\ composites[k].output.width <= 3200
      /\ composites[k].output.height <= 9600

\* A composite of four frames in a strip was made.
C33_Witness ==
  /\ propLayout = "strip-4" /\ Len(propPhotos) = 4
  /\ \E k \in 1..Len(composites) :
       composites[k].output.ok /\ composites[k].output.height = 10160


(***************************************************************************)
(* C39: the preview records a connected peripheral (connectedDevice        *)
(* non-null, the "Connected:" line shown, 519-523) only for a device to    *)
(* which a link was established at least once.                             *)
(* The code: connectedDevice is set, and "Connected to ..." is toasted, as *)
(* soon as the chooser resolves (227-229), before gatt.connect() is even   *)
(* called (252); nothing clears it when the connect fails.                 *)
(***************************************************************************)
C39_RecordedOnlyIfLinked ==
  connectedDevice # Null => connectedDevice.id \in linked


(***************************************************************************)
(* C38: every composite generated inside a print session, the one for the  *)
(* peripheral and the one of the system print fallback, is rendered with   *)
(* the color mode current at the moment generateHighQualityStrip is        *)
(* called, whatever the user toggled while the session was connecting.     *)
(* The code: the session runs the generateHighQualityStrip of the render   *)
(* in which Print was clicked (useCallback over isGrayscale, 156), and the *)
(* Color and B&W buttons are never disabled (470-486).                     *)
(***************************************************************************)
C38_PrintCompositeInCurrentMode ==
  \A k \in 1..Len(composites) :
    composites[k].caller \in {"print", "system"} =>
      composites[k].isGrayscale = (composites[k].calledIn = "bw")


(***************************************************************************)
(* C35: the camera hook holds a stream exactly when permission is          *)
(* granted: stream # null implies permissionState = granted and            *)
(* permissionState = granted implies stream # null, in every reachable     *)
(* state, two requests in flight with different outcomes included.         *)
(* The code: the catch of requestCamera sets permissionState and leaves    *)
(* the stream of an earlier request in place (useCamera.ts:141-203).       *)
(***************************************************************************)
C35_StreamIffGranted ==
  stream <=> permissionState = "granted"


(***************************************************************************)
(* C36: a countdown belongs to the camera session that started it: after   *)
(* the user left camera mode while it runs, it never appends a frame to    *)
(* the photos of a later camera session.                                   *)
(* The code: stopCamera (87-96) leaves the countdown and its interval      *)
(* alone, and capturePhoto (138-166) takes whatever video element and      *)
(* photos the component has when the countdown expires.                    *)
(***************************************************************************)
C36_CountdownStaysInItsSession ==
  ~strayShot

(***************************************************************************)
(* C37: whenever the capture screen is in choose mode its photos are       *)
(* empty, also when a countdown started in camera mode fires after Back.   *)
(***************************************************************************)
C37_ChooseModeHasNoPhotos ==
  mode = "choose" => photos = <<>>

\* A countdown has fired on the choose screen, after Back: no frame.
C37_Witness ==
  /\ appState = "capture" /\ mode = "choose"
  /\ fired = 1 /\ ~interval /\ ticks = startedWith /\ ~stale
  /\ capToast # "Photo captured!"
  /\ photos = <<>>


(***************************************************************************)
(* C34: every object URL created by downloadImage is revoked exactly once, *)
(* on every exit path (a save in either branch, an error, a later download *)
(* replacing it, the preview left before the timer fires), provided the    *)
(* scheduled timers fire: none is revoked twice and none stays unreleased  *)
(* forever.                                                                *)
(***************************************************************************)
C34_RevokedExactlyOnce ==
  /\ [](\A k \in 1..Len(urls) : urls[k].revocations <= 1)
  /\ \A k \in 1..MaxDownloads :
       (Len(urls) >= k) ~> (Len(urls) >= k /\ urls[k].revocations = 1)

\* Two downloads of one preview, the second before the timer of the first
\* and the preview left before any timer fired: the first URL went when the
\* second was made, the second when the first timer fired.
C34_Witness ==
  /\ ~dlMounted /\ Len(urls) = 2 /\ dlTimers = {}
  /\ urls[1].revocations = 1 /\ urls[2].revocations = 1
  /\ urls[1].revokedAt = urls[2].createdAt
  /\ urls[2].revokedAt < urls[2].createdAt + urls[2].grace

=============================================================================
